---- MODULE Spec2Model ----
(***************************************************************************)
(* A model of python-apt's progress reporting (apt/progress/base.py,       *)
(* apt/progress/text.py) and distribution templates                        *)
(* (aptsources/distinfo.py).                                               *)
(*                                                                         *)
(* Text is modelled as a sequence of tokens.  A token is one of the        *)
(* separator characters ":", " ", "'" and "\n", or a word: a maximal run   *)
(* of other characters.  str.split, str.strip, str.startswith, float() and *)
(* the conffile regular expression are computed on these sequences the way *)
(* Python computes them on the characters.                                 *)
(***************************************************************************)
EXTENDS Integers, Sequences, FiniteSets, TLC

VARIABLES
    \* ---- InstallProgress (base.py) ----
    percent,      \* self.percent: float, last reported percent
    status,       \* self.status: str, last reported status text
    child_pid,    \* self.child_pid
    calls,        \* callbacks invoked by the last update_interface() call
    uiErr,        \* exception the last update_interface() call raised, or "none"
    lastLine,     \* what the last readline() returned (<<>> when it returned nothing)
    prevLine,     \* the line returned by the readline() before that
    prevPercent,  \* self.percent before the last update_interface() call
    prevStatus,   \* self.status before the last update_interface() call
    nFed,         \* number of update_interface() calls so far
    readRes,      \* outcome of the last readline(): "none", "line", "empty", "EAGAIN", "EIO"
    ppc,          \* where the parent process is in run() / wait_child()
    cpc,          \* where the forked child is
    pipe,         \* the status channel: lines written and not yet read
    nWritten,     \* number of lines the child wrote
    pid,          \* wait_child's local pid
    res,          \* wait_child's local res (a wait status)
    exitStatus,   \* the wait status the child left when it ended
    selRes,       \* outcome of the last select()
    reapRes,      \* outcome of the last waitpid()
    nEintr,       \* number of signal interruptions so far
    runRes,       \* what run() returned (-1 before it returns)
    \* ---- AcquireProgress (base.py, text.py) ----
    current_bytes, current_cps, fetched_bytes, last_bytes, total_bytes,
    current_items, elapsed_time, total_items,
    _id,          \* text.AcquireProgress._id: the next display id
    _width,       \* TextProgress._width
    _signal,      \* the SIGWINCH handler start() replaced
    sigwinch,     \* the SIGWINCH handler installed in the process
    outfile,      \* what self._file is: "tty", "file" or "nofileno"
    items,        \* the items of the run: filesize, complete, id, state
    idsGiven,     \* the ids fetch() assigned since the last start(), in order
    nFetch,       \* number of fetch() calls since the last start()
    out,          \* the kind of the last line written
    pulseRes,     \* how the last pulse() ended: "none", "True", "ZeroDivisionError"
    phase,        \* "new", "running" (after start()) or "stopped" (after stop())
    lastOp,       \* the last callback the transport invoked (and the item of a fetch)
    \* ---- _expand_template (distinfo.py) ----
    template,     \* the template document: its paragraphs, each a sequence of lines
    csv_rows,     \* the release table: its rows in file order
    known_suites, \* _expand_template's known_suites
    releases,     \* _expand_template's releases (<<>> before the table is read)
    epc,          \* where the generator is: "idle", "header", "gather", "csv",
                  \* "rows", "footer", "done"
    sec_i,        \* position of the TagFile iterator of the first pass
    rel_i,        \* position in releases
    yielded,      \* the lines yielded so far, each with the place it comes from
    csv_opens,    \* number of times the release table was opened
    \* ---- DistInfo (distinfo.py) ----
    templates,       \* self.templates: the finished templates, in order
    cur_template,    \* __init__'s local template: <<>> for None, else <<t>>
    component,       \* __init__'s local component: <<>> for None, else <<c>>
    map_mirror_sets, \* __init__'s local map_mirror_sets: path -> mirror set
    opens,           \* number of times each mirror file was opened
    dpc,             \* "idle", "running", "done", or "error" (an exception
                     \* left __init__)
    nLines,          \* number of lines taken from _expand_template so far
    vocabulary,      \* the lines the stream is made of
    suite_lines,     \* the values of the Suite lines read so far, in order
    mirror_files,    \* the mirror files: path -> the stripped lines of the file
    location,        \* __init__'s local location: <<>> for None, else <<label>>
    \* ---- text.AcquireProgress.pulse (text.py) ----
    owner_workers, \* owner.workers of the last pulse(owner)
    drawn,        \* <<>>, or <<len(tval), self._width>> of the line the last
                  \* pulse() wrote
    \* ---- the status channel, byte by byte (base.py) ----
    unwritten     \* the rest of the line the child is writing

decoderVars == <<percent, status, calls, uiErr, lastLine, prevLine,
                 prevPercent, prevStatus, nFed, readRes>>

processVars == <<child_pid, ppc, cpc, pipe, nWritten, pid, res, exitStatus,
                 selRes, reapRes, nEintr, runRes>>

statVars == <<current_bytes, current_cps, fetched_bytes, last_bytes,
              total_bytes, current_items, elapsed_time, total_items>>

acquireVars == <<statVars, _id, _width, _signal, sigwinch, outfile, items,
                 idsGiven, nFetch, out, pulseRes, phase, lastOp>>

installVars == <<decoderVars, processVars>>

expandVars == <<template, csv_rows, known_suites, releases, epc, sec_i, rel_i,
                yielded, csv_opens>>

distInfoVars == <<templates, cur_template, component, map_mirror_sets, opens,
                  dpc, nLines, vocabulary, suite_lines>>

\* What the operations of InstallProgress, of AcquireProgress, of
\* _expand_template and of DistInfo leave alone.
mirrorVars == <<mirror_files, location>>
pulseVars == <<owner_workers, drawn>>
splitVars == <<unwritten>>

nonInstallVars == <<acquireVars, expandVars, distInfoVars, mirrorVars,
                    pulseVars, splitVars>>
nonAcquireVars == <<installVars, expandVars, distInfoVars, mirrorVars,
                    pulseVars, splitVars>>
nonExpandVars == <<installVars, acquireVars, distInfoVars, mirrorVars,
                   pulseVars, splitVars>>
nonDistInfoVars == <<installVars, acquireVars, expandVars, mirrorVars,
                     pulseVars, splitVars>>
nonMirrorVars == <<installVars, acquireVars, expandVars, pulseVars, splitVars>>
nonPulseVars == <<installVars, expandVars, distInfoVars, mirrorVars, splitVars>>
nonSplitVars == <<acquireVars, expandVars, distInfoVars, mirrorVars, pulseVars>>

vars == <<installVars, acquireVars, expandVars, distInfoVars, mirrorVars,
          pulseVars, splitVars>>

(***************************************************************************)
(* Bounds of the model.                                                    *)
(***************************************************************************)
MaxFeed == 3
MaxWrites == 2
PipeCap == 2
MaxEintr == 1

(***************************************************************************)
(* Text helpers.                                                           *)
(***************************************************************************)
Whitespace == {" ", "\n"}

\* Index of the first ":" of toks at or after position i, or 0.
RECURSIVE FindColon(_, _)
FindColon(toks, i) ==
    IF i > Len(toks) THEN 0
    ELSE IF toks[i] = ":" THEN i
    ELSE FindColon(toks, i + 1)

\* str.split(":", maxsplit): at most maxsplit splits, left to right.
RECURSIVE Split(_, _)
Split(toks, maxsplit) ==
    LET i == FindColon(toks, 1)
    IN IF maxsplit = 0 \/ i = 0 THEN <<toks>>
       ELSE <<SubSeq(toks, 1, i - 1)>>
            \o Split(SubSeq(toks, i + 1, Len(toks)), maxsplit - 1)

RECURSIVE LStrip(_)
LStrip(toks) ==
    IF toks # <<>> /\ Head(toks) \in Whitespace THEN LStrip(Tail(toks)) ELSE toks

RECURSIVE RStrip(_)
RStrip(toks) ==
    IF toks # <<>> /\ toks[Len(toks)] \in Whitespace
    THEN RStrip(SubSeq(toks, 1, Len(toks) - 1))
    ELSE toks

\* str.strip()
Strip(toks) == RStrip(LStrip(toks))

\* str.startswith(prefix), for the three prefixes update_interface tests: the
\* text starts with the prefix iff its first token is a word that does.
WordsStarting(prefix) ==
    CASE prefix = "pm" -> {"pm", "pmstatus", "pmerror", "pmconffile"}
      [] prefix = "status" -> {"status"}
      [] prefix = "processing" -> {"processing"}

StartsWith(toks, prefix) ==
    toks # <<>> /\ Head(toks) \in WordsStarting(prefix)

\* float(): the words that spell a number, and the number (all whole here;
\* "50" and "50.0" spell the same one).  float() ignores surrounding
\* whitespace and raises ValueError on anything else.
NumberWords == {"0", "50", "50.0", "100"}

FloatOfWord(w) ==
    CASE w = "0" -> 0
      [] w = "50" -> 50
      [] w = "50.0" -> 50
      [] w = "100" -> 100

IsFloat(toks) == Len(Strip(toks)) = 1 /\ Strip(toks)[1] \in NumberWords

FloatOf(toks) == FloatOfWord(Strip(toks)[1])

\* Index of the first non-whitespace token of s at or after i (Len(s)+1 if none).
RECURSIVE SkipWs(_, _)
SkipWs(s, i) ==
    IF i <= Len(s) /\ s[i] \in Whitespace THEN SkipWs(s, i + 1) ELSE i

SetMax(S) == CHOOSE x \in S : \A y \in S : y <= x

\* re.match("\s*'(.*)'\s*'(.*)'.*", s): the groups, or <<>> when there is no
\* match.  Both groups are greedy: the second ends at the last quote, the
\* first at the last quote that leaves whitespace, a quote and one more quote
\* after it.
ConffileMatch(s) ==
    LET a == SkipWs(s, 1)
        quotes == {i \in 1..Len(s) : s[i] = "'"}
        ends == {b \in quotes :
                   /\ b > a
                   /\ SkipWs(s, b + 1) \in quotes
                   /\ \E d \in quotes : d > SkipWs(s, b + 1)}
    IN IF a \in quotes /\ ends # {}
       THEN LET b == SetMax(ends)
                c == SkipWs(s, b + 1)
                d == SetMax(quotes)
            IN <<SubSeq(s, a + 1, b - 1), SubSeq(s, c + 1, d - 1)>>
       ELSE <<>>

(***************************************************************************)
(* InstallProgress.update_interface, after readline() returned `line`.     *)
(***************************************************************************)
NoFields ==
    [how |-> "fields", pkgname |-> <<>>, status |-> <<>>, status_str |-> <<>>,
     percent |-> <<>>, base |-> <<>>, processing |-> FALSE]

\* Lines 242-257: the fields of the line by prefix.  how = "return" is the
\* silent return of line 249, how = "ValueError" an unpacking error that
\* nothing catches.
ParseLine(line) ==
    IF StartsWith(line, "pm") THEN
        LET p == Split(line, 3)
        IN IF Len(p) = 4
           THEN [NoFields EXCEPT !.status = p[1], !.pkgname = p[2],
                                 !.percent = p[3], !.status_str = p[4]]
           ELSE [NoFields EXCEPT !.how = "return"]
    ELSE IF StartsWith(line, "status") THEN
        LET p == Split(line, 3)
            q == Split(line, 2)
        IN IF Len(p) = 4
           THEN [NoFields EXCEPT !.base = p[1], !.pkgname = p[2],
                                 !.status = p[3], !.status_str = p[4]]
           ELSE IF Len(q) = 3
           THEN [NoFields EXCEPT !.base = q[1], !.pkgname = q[2],
                                 !.status = q[3]]
           ELSE [NoFields EXCEPT !.how = "ValueError"]
    ELSE IF StartsWith(line, "processing") THEN
        LET p == Split(line, 2)
        IN IF Len(p) = 3
           THEN [NoFields EXCEPT !.status = p[1], !.status_str = p[2],
                                 !.pkgname = p[3], !.processing = TRUE]
           ELSE [NoFields EXCEPT !.how = "ValueError"]
    ELSE NoFields

\* StatusChanged with the status text left out of the comparison.
StatusChanged_PercentOnly(newPercent, newStatus, oldPercent, oldStatus) ==
    newPercent # oldPercent

\* Line 272: whether a pmstatus line is reported.
StatusChanged(newPercent, newStatus, oldPercent, oldStatus) ==
    newPercent # oldPercent \/ newStatus # oldStatus

\* Lines 259-277: the dispatch on the stripped status.  The result is the
\* callbacks invoked, the controller's percent and status afterwards, and the
\* exception raised ("none" if none).
Dispatch(f, pct, st) ==
    LET pkgname == Strip(f.pkgname)
        status_str == Strip(f.status_str)
        stat == Strip(f.status)
        pre == IF f.processing
               THEN <<<<"processing", Strip(f.pkgname), Strip(f.status_str)>>>>
               ELSE <<>>
        same == [calls |-> pre, percent |-> pct, status |-> st, err |-> "none"]
    IN IF stat \in {<<"pmerror">>, <<"error">>} THEN
           [same EXCEPT !.calls = pre \o <<<<"error", pkgname, status_str>>>>]
       ELSE IF stat \in {<<"conffile-prompt">>, <<"pmconffile">>} THEN
           LET m == ConffileMatch(status_str)
           IN IF m # <<>>
              THEN [same EXCEPT !.calls = pre \o <<<<"conffile", m[1], m[2]>>>>]
              ELSE same
       ELSE IF stat = <<"pmstatus">> THEN
           IF ~IsFloat(f.percent) THEN [same EXCEPT !.err = "ValueError"]
           ELSE IF StatusChanged(FloatOf(f.percent), status_str, pct, st)
           THEN [calls |-> pre \o <<<<"status_change", pkgname,
                                      FloatOf(f.percent), Strip(status_str)>>>>,
                 percent |-> FloatOf(f.percent),
                 status |-> Strip(status_str),
                 err |-> "none"]
           ELSE same
       ELSE IF f.base = <<"status">> THEN
           [same EXCEPT !.calls = pre \o <<<<"dpkg_status_change", pkgname, stat>>>>]
       ELSE same

(***************************************************************************)
(* Status lines of the wire format, and lines that break it.               *)
(***************************************************************************)
StatusLines == {
    <<"pmstatus", ":", "pkg", ":", "0", ":", "\n">>,
    <<"pmstatus", ":", "pkg", ":", "50", ":", " ", "Installing", "\n">>,
    <<"pmstatus", ":", "pkg", ":", " ", "50.0", ":", "Installing", "\n">>,
    <<"pmstatus", ":", "pkg", ":", "100", ":", "Installing", "\n">>,
    <<"pmstatus", ":", "pkg", ":", "100", ":", "Installing", ":", "x", "\n">>,
    <<"pmstatus", ":", "pkg", ":", "x", ":", "Installing", "\n">>,
    <<"pmerror", ":", "pkg", ":", "50", ":", " ", "broken", "\n">>,
    <<"pmconffile", ":", "pkg", ":", "50", ":",
      "'", "a", "'", " ", "'", "a.new", "'", " ", "1", "\n">>,
    <<"pmconffile", ":", "pkg", ":", "50", ":", "a", "\n">>,
    <<"status", ":", " ", "pkg", ":", " ", "installed", "\n">>,
    <<"status", ":", " ", "pkg", ":", " ", "error", ":", " ", "broken", "\n">>,
    <<"processing", ":", " ", "install", ":", " ", "pkg", "\n">>,
    <<"other", ":", "pkg", "\n">>,
    <<"pmstatus", ":", "pkg", ":", "50", "\n">>,
    <<"pm", "\n">>,
    <<"status", ":", " ", "pkg", "\n">>,
    <<"status", "\n">>
}

\* The lines the installer writes in this specification.
ChildLines == {
    <<"pmstatus", ":", "pkg", ":", "50", ":", " ", "Installing", "\n">>,
    <<"status", ":", " ", "pkg", ":", " ", "installed", "\n">>,
    <<"status", ":", " ", "pkg", "\n">>
}

\* The two pieces of a line cut after its k-th token.
Prefix(line, k) == SubSeq(line, 1, k)
Suffix(line, k) == SubSeq(line, k + 1, Len(line))

\* What a write of a part of a line puts into the status channel.
Pieces ==
    UNION {({Prefix(line, k) : k \in 1..(Len(line) - 1)}
              \cup {Suffix(line, k) : k \in 1..(Len(line) - 1)}) :
           line \in ChildLines}

\* ParseLine of every line of the model, computed once.
AllLines == StatusLines \cup ChildLines \cup Pieces \cup {<<>>}
Parsed == [line \in AllLines |-> ParseLine(line)]

\* update_interface from line 242 on.
Decoded(line, pct, st) ==
    LET f == Parsed[line]
    IN IF f.how = "fields" THEN Dispatch(f, pct, st)
       ELSE [calls |-> <<>>, percent |-> pct, status |-> st,
             err |-> IF f.how = "return" THEN "none" ELSE f.how]

\* The values self.percent and self.status can take, and Decoded of every
\* line in every such state, computed once.
Percents == {FloatOfWord(w) : w \in NumberWords}
Statuses == {<<>>} \cup {Strip(Parsed[line].status_str) : line \in AllLines}
DecodedTable ==
    [line \in AllLines, pct \in Percents, st \in Statuses |->
        Decoded(line, pct, st)]

UpdateInterface(line, pct, st) == DecodedTable[line, pct, st]

\* ReadErrorReturns if only EAGAIN were swallowed and any other IOError
\* raised again.
ReadErrorReturns_OnlyEagain(errno) == errno = "EAGAIN"

\* Lines 234-240: a readline() that raises IOError makes update_interface
\* return, whatever the errno (only the printing differs).
ReadErrorReturns(errno) == TRUE

Called(name) == \E i \in 1..Len(calls) : calls[i][1] = name

(***************************************************************************)
(* text.AcquireProgress: the state after construction.                     *)
(***************************************************************************)
MaxItems == 2
MaxFetch == 3
MaxWorkers == 2

Items == 1..MaxItems
FileSizes == {0, 10}
OutFiles == {"tty", "file", "nofileno"}

\* TextProgress.__init__ sets _width to 0, AcquireProgress.__init__ to this.
DefaultWidth == 80

\* An item the transport has queued and not yet reported.
NewItem(size) == [filesize |-> size, complete |-> FALSE, id |-> 0, state |-> "queued"]

\* base.py lines 25-27, text.py lines 87-93.
AcquireConstructed(file) ==
    /\ current_bytes = 0
    /\ current_cps = 0
    /\ fetched_bytes = 0
    /\ last_bytes = 0
    /\ total_bytes = 0
    /\ current_items = 0
    /\ elapsed_time = 0
    /\ total_items = 0
    /\ _id = 1
    /\ _width = DefaultWidth
    /\ _signal = "None"
    /\ sigwinch = "SIG_DFL"
    /\ outfile = file
    /\ items = [i \in Items |-> NewItem(0)]
    /\ idsGiven = <<>>
    /\ nFetch = 0
    /\ out = "none"
    /\ pulseRes = "none"
    /\ phase = "new"
    /\ lastOp = <<"none", 0>>
    /\ owner_workers = <<>>
    /\ drawn = <<>>

(***************************************************************************)
(* The state after InstallProgress() is constructed (class attributes of   *)
(* line 133, the empty pipe of line 137), before run().                    *)
(***************************************************************************)
InstallConstructed ==
    /\ percent = 0
    /\ status = <<>>
    /\ child_pid = 0
    /\ calls = <<>>
    /\ uiErr = "none"
    /\ lastLine = <<>>
    /\ prevLine = <<>>
    /\ prevPercent = 0
    /\ prevStatus = <<>>
    /\ nFed = 0
    /\ readRes = "none"
    /\ ppc = "idle"
    /\ cpc = "unborn"
    /\ pipe = <<>>
    /\ nWritten = 0
    /\ pid = 0
    /\ res = 0
    /\ exitStatus = 0
    /\ selRes = "none"
    /\ reapRes = "none"
    /\ nEintr = 0
    /\ runRes = -1
    /\ unwritten = <<>>

\* _expand_template has not been called.
ExpandIdle ==
    /\ template = <<>>
    /\ csv_rows = <<>>
    /\ known_suites = {}
    /\ releases = <<>>
    /\ epc = "idle"
    /\ sec_i = 1
    /\ rel_i = 1
    /\ yielded = <<>>
    /\ csv_opens = 0

\* The mirror files of the model, by absolute path.
MirrorPaths == {<<"/base/mirrors">>, <<"/base/other">>}

\* No DistInfo is being built.
DistInfoIdle ==
    /\ templates = <<>>
    /\ cur_template = <<>>
    /\ component = <<>>
    /\ map_mirror_sets = <<>>
    /\ opens = [path \in MirrorPaths |-> 0]
    /\ dpc = "idle"
    /\ nLines = 0
    /\ vocabulary = {}
    /\ suite_lines = <<>>
    /\ mirror_files = <<>>
    /\ location = <<>>

Init ==
    /\ InstallConstructed
    /\ AcquireConstructed("tty")
    /\ ExpandIdle
    /\ DistInfoIdle

(***************************************************************************)
(* The decoder fed with any sequence of lines: update_interface is called  *)
(* with the status stream holding the line.                                *)
(***************************************************************************)
\* update_interface() with readline() returning `line`.
Decode(line) ==
    LET r == UpdateInterface(line, percent, status)
    IN /\ calls' = r.calls
       /\ percent' = r.percent
       /\ status' = r.status
       /\ uiErr' = r.err
       /\ prevLine' = lastLine
       /\ lastLine' = line
       /\ prevPercent' = percent
       /\ prevStatus' = status
       /\ readRes' = IF line = <<>> THEN "empty" ELSE "line"

Feed ==
    /\ UNCHANGED nonInstallVars
    /\ nFed < MaxFeed
    /\ nFed' = nFed + 1
    /\ \E line \in StatusLines : Decode(line)
    /\ UNCHANGED processVars

DecoderNext == Feed

DecoderSpec == Init /\ [][DecoderNext]_vars

(***************************************************************************)
(* InstallProgress.run: the parent, the forked child and the status        *)
(* channel between them.                                                   *)
(***************************************************************************)
Pids == {101, 102}
ExitCodes == {0, 1}
Signals == {9}

\* apt_pkg.PackageManager.RESULT_FAILED
RESULT_FAILED == 1

\* The wait status of a child that called os._exit(code), and of one a
\* signal killed; os.WEXITSTATUS.
ExitedStatus(code) == (code % 256) * 256
SignaledStatus(sig) == sig
WEXITSTATUS(stat) == (stat \div 256) % 256

ChildAlive == cpc \in {"set_inheritable", "do_install", "spawn", "escaped"}
ChildEnded == cpc \in {"exited", "reaped", "gone"}

\* Lines 198-199, 222-223, 287: fork(); the parent stores the pid and enters
\* wait_child, the child starts the branch of line 199.
Fork ==
    /\ UNCHANGED nonInstallVars
    /\ ppc = "idle"
    /\ \E p \in Pids : child_pid' = p
    /\ ppc' = "select"
    /\ cpc' = "set_inheritable"
    /\ pid' = 0
    /\ res' = 0
    /\ UNCHANGED <<decoderVars, pipe, nWritten, exitStatus, selRes, reapRes,
                   nEintr, runRes>>

\* ---- the child ----

\* Lines 200-206: os.set_inheritable, or AttributeError where it is missing.
ChildSetInheritable ==
    /\ UNCHANGED nonInstallVars
    /\ cpc = "set_inheritable"
    /\ cpc' = "do_install"
    /\ UNCHANGED <<decoderVars, child_pid, ppc, pipe, nWritten, pid, res,
                   exitStatus, selRes, reapRes, nEintr, runRes>>

\* The installer (do_install, or dpkg under spawnlp) writes a status line.
ChildWrite ==
    /\ UNCHANGED nonInstallVars
    /\ cpc \in {"do_install", "spawn"}
    /\ nWritten < MaxWrites
    /\ Len(pipe) < PipeCap
    /\ \E line \in ChildLines : pipe' = Append(pipe, line)
    /\ nWritten' = nWritten + 1
    /\ UNCHANGED <<decoderVars, child_pid, ppc, cpc, pid, res, exitStatus,
                   selRes, reapRes, nEintr, runRes>>

\* Lines 212-220: what the try statement does with each way
\* obj.do_install(...) can end: <<next position of the child, exit code>>.
\* "KeyboardInterrupt" stands for the exceptions that are no Exception.
DoInstallOutcomes == {"returns", "AttributeError", "Exception", "KeyboardInterrupt"}

AfterDoInstall(outcome, code) ==
    CASE outcome = "returns" -> <<"exited", code>>
      [] outcome = "AttributeError" -> <<"spawn", 0>>
      [] outcome = "Exception" -> <<"exited", RESULT_FAILED>>
      [] outcome = "KeyboardInterrupt" -> <<"escaped", 0>>

ChildDoInstall ==
    /\ UNCHANGED nonInstallVars
    /\ cpc = "do_install"
    /\ \E outcome \in DoInstallOutcomes, code \in ExitCodes :
         LET a == AfterDoInstall(outcome, code)
         IN /\ cpc' = a[1]
            /\ exitStatus' = IF a[1] = "exited" THEN ExitedStatus(a[2])
                              ELSE exitStatus
    /\ UNCHANGED <<decoderVars, child_pid, ppc, pipe, nWritten, pid, res,
                   selRes, reapRes, nEintr, runRes>>

\* Lines 214-217: os.spawnlp in the AttributeError handler.  An exception
\* raised in an except clause is not handled by the clauses beside it.
SpawnOutcomes == {"returns", "raises"}

AfterSpawn(outcome, code) ==
    CASE outcome = "returns" -> <<"exited", code>>
      [] outcome = "raises" -> <<"escaped", 0>>

ChildSpawn ==
    /\ UNCHANGED nonInstallVars
    /\ cpc = "spawn"
    /\ \E outcome \in SpawnOutcomes, code \in ExitCodes :
         LET a == AfterSpawn(outcome, code)
         IN /\ cpc' = a[1]
            /\ exitStatus' = IF a[1] = "exited" THEN ExitedStatus(a[2])
                              ELSE exitStatus
    /\ UNCHANGED <<decoderVars, child_pid, ppc, pipe, nWritten, pid, res,
                   selRes, reapRes, nEintr, runRes>>

\* A child that left the branch of line 199 with an exception runs the
\* caller's code; unhandled, the exception ends the process with status 1.
ChildEscapedEnds ==
    /\ UNCHANGED nonInstallVars
    /\ cpc = "escaped"
    /\ cpc' = "exited"
    /\ exitStatus' = ExitedStatus(1)
    /\ UNCHANGED <<decoderVars, child_pid, ppc, pipe, nWritten, pid, res,
                   selRes, reapRes, nEintr, runRes>>

\* A signal kills the child.
ChildKilled ==
    /\ UNCHANGED nonInstallVars
    /\ ChildAlive
    /\ cpc' = "exited"
    /\ \E sig \in Signals : exitStatus' = SignaledStatus(sig)
    /\ UNCHANGED <<decoderVars, child_pid, ppc, pipe, nWritten, pid, res,
                   selRes, reapRes, nEintr, runRes>>

\* The ended child is reaped by someone else (a SIGCHLD handler, SIGCHLD
\* ignored): waitpid will report ECHILD.
ReapedElsewhere ==
    /\ UNCHANGED nonInstallVars
    /\ cpc = "exited"
    /\ cpc' = "gone"
    /\ UNCHANGED <<decoderVars, child_pid, ppc, pipe, nWritten, pid, res,
                   exitStatus, selRes, reapRes, nEintr, runRes>>

\* ---- the parent: wait_child ----

\* Lines 289-295: select() returned, or raised select.error with this errno.
AfterSelect(outcome) ==
    IF outcome \in {"readable", "timeout"} THEN "update"
    ELSE IF outcome # "EINTR" THEN "raised"
    ELSE "update"

SelectOutcomes ==
    (IF pipe # <<>> THEN {"readable"} ELSE {"timeout"})
    \cup (IF nEintr < MaxEintr THEN {"EINTR"} ELSE {})
    \cup {"EBADF"}

Select ==
    /\ UNCHANGED nonInstallVars
    /\ ppc = "select"
    /\ \E outcome \in SelectOutcomes :
         /\ selRes' = outcome
         /\ ppc' = AfterSelect(outcome)
         /\ nEintr' = IF outcome = "EINTR" THEN nEintr + 1 ELSE nEintr
    /\ UNCHANGED <<decoderVars, child_pid, cpc, pipe, nWritten, pid, res,
                   exitStatus, reapRes, runRes>>

\* Line 297: update_interface().  readline() returns the next line, returns
\* "" or raises EAGAIN when there is none, or raises another IOError.
ReadOutcomes ==
    (IF pipe # <<>> THEN {"line"} ELSE {"empty", "EAGAIN"}) \cup {"EIO"}

\* The position of wait_child after update_interface() ended with `err`.
AfterUpdate(err) == IF err = "none" THEN "reap" ELSE "raised"

Update ==
    /\ UNCHANGED nonInstallVars
    /\ ppc = "update"
    /\ \E outcome \in ReadOutcomes :
         \/ /\ outcome = "line"
            /\ Decode(Head(pipe))
            /\ pipe' = Tail(pipe)
            /\ ppc' = AfterUpdate(UpdateInterface(Head(pipe), percent, status).err)
         \/ /\ outcome = "empty"
            /\ Decode(<<>>)
            /\ pipe' = pipe
            /\ ppc' = AfterUpdate(UpdateInterface(<<>>, percent, status).err)
         \/ /\ outcome \in {"EAGAIN", "EIO"}
            /\ readRes' = outcome
            /\ calls' = <<>>
            /\ uiErr' = IF ReadErrorReturns(outcome) THEN "none" ELSE "IOError"
            /\ prevPercent' = percent
            /\ prevStatus' = status
            /\ UNCHANGED <<percent, status, lastLine, prevLine, pipe>>
            /\ ppc' = AfterUpdate(IF ReadErrorReturns(outcome) THEN "none"
                                  ELSE "IOError")
    /\ UNCHANGED <<nFed, child_pid, cpc, nWritten, pid, res, exitStatus,
                   selRes, reapRes, nEintr, runRes>>

\* AfterWaitpid if the loop ended whatever pid waitpid returned.
AfterWaitpid_NoPidCheck(p, cp) == "returned"

\* AfterWaitpidError if EINTR were raised like any other error.
AfterWaitpidError_EintrRaises(errno) ==
    IF errno = "ECHILD" THEN "returned" ELSE "raised"

\* Lines 298-306: waitpid(child_pid, WNOHANG) returned <<p, stat>>, and what
\* the loop does then.
AfterWaitpid(p, cp) == IF p = cp THEN "returned" ELSE "select"

\* ... or raised OSError with this errno.
AfterWaitpidError(errno) ==
    IF errno = "ECHILD" THEN "returned"
    ELSE IF errno # "EINTR" THEN "raised"
    ELSE "select"

ReapOutcomes ==
    (IF ChildAlive THEN {"running"} ELSE {})
    \cup (IF cpc = "exited" THEN {"pid"} ELSE {})
    \cup (IF cpc \in {"gone", "reaped"} THEN {"ECHILD"} ELSE {})
    \cup (IF nEintr < MaxEintr THEN {"EINTR"} ELSE {})
    \cup {"EINVAL"}

Reap ==
    /\ UNCHANGED nonInstallVars
    /\ ppc = "reap"
    /\ \E outcome \in ReapOutcomes :
         /\ reapRes' = outcome
         /\ nEintr' = IF outcome = "EINTR" THEN nEintr + 1 ELSE nEintr
         /\ \/ /\ outcome = "running"
               /\ pid' = 0
               /\ res' = 0
               /\ cpc' = cpc
               /\ ppc' = AfterWaitpid(0, child_pid)
            \/ /\ outcome = "pid"
               /\ pid' = child_pid
               /\ res' = exitStatus
               /\ cpc' = "reaped"
               /\ ppc' = AfterWaitpid(child_pid, child_pid)
            \/ /\ outcome \in {"ECHILD", "EINTR", "EINVAL"}
               /\ UNCHANGED <<pid, res, cpc>>
               /\ ppc' = AfterWaitpidError(outcome)
    /\ UNCHANGED <<decoderVars, child_pid, pipe, nWritten, exitStatus, selRes,
                   runRes>>

\* Lines 223-224: run() returns os.WEXITSTATUS(res).
RunReturn ==
    /\ UNCHANGED nonInstallVars
    /\ ppc = "returned"
    /\ ppc' = "done"
    /\ runRes' = WEXITSTATUS(res)
    /\ UNCHANGED <<decoderVars, child_pid, cpc, pipe, nWritten, pid, res,
                   exitStatus, selRes, reapRes, nEintr>>

ChildStep ==
    \/ ChildSetInheritable
    \/ ChildWrite
    \/ ChildDoInstall
    \/ ChildSpawn
    \/ ChildEscapedEnds
    \/ ChildKilled
    \/ ReapedElsewhere

ParentStep ==
    \/ Fork
    \/ Select
    \/ Update
    \/ Reap
    \/ RunReturn

Next == ParentStep \/ ChildStep

Spec == Init /\ [][Next]_vars

\* The parent is a running thread: while it has a step to take it takes one.
FairSpec == Spec /\ WF_vars(ParentStep)

(***************************************************************************)
(* text.AcquireProgress driven by the transport: start, then fetch, done,  *)
(* fail, ims_hit and pulse in any order, then stop, and again.             *)
(***************************************************************************)
TermCols == {12, 30}
CpsValues == {0, 5}

\* len("%i" % n) for n >= 0.
RECURSIVE Digits(_)
Digits(n) == IF n < 10 THEN 1 ELSE 1 + Digits(n \div 10)

\* len(apt_pkg.size_to_str(n)) and len(apt_pkg.time_to_str(n)) for the small
\* values of the model: "5 " and "5s".
SizeToStrLen(n) == Digits(n) + 1
TimeToStrLen(n) == Digits(n) + 1

\* text.py lines 108-117: _winch reads the window size of a terminal.
Winch(width, file, col) == IF file = "tty" THEN col - 1 ELSE width

\* BaseStart if start() left fetched_bytes as it was.
BaseStart_KeepsFetched(stats) == <<0, 0, stats[3], 0, 0, 0, 0, 0>>

\* base.py lines 77-88: the counters after AcquireProgress.start(), in the
\* order of statVars.
BaseStart(stats) == <<0, 0, 0, 0, 0, 0, 0, 0>>

\* text.py line 106: the next id after start().
StartId(id) == 1

\* text.py lines 95-106, and the transport handing over the items of the run.
Start ==
    /\ phase \in {"new", "stopped"}
    /\ phase' = "running"
    /\ LET b == BaseStart(statVars)
       IN /\ current_bytes' = b[1]
          /\ current_cps' = b[2]
          /\ fetched_bytes' = b[3]
          /\ last_bytes' = b[4]
          /\ total_bytes' = b[5]
          /\ current_items' = b[6]
          /\ elapsed_time' = b[7]
          /\ total_items' = b[8]
    /\ _signal' = sigwinch
    /\ sigwinch' = "_winch"
    /\ \E col \in TermCols : _width' = Winch(_width, outfile, col)
    /\ _id' = StartId(_id)
    /\ \E sizes \in [Items -> FileSizes] :
         items' = [i \in Items |-> NewItem(sizes[i])]
    /\ idsGiven' = <<>>
    /\ nFetch' = 0
    /\ lastOp' = <<"start", 0>>
    /\ UNCHANGED <<outfile, out, pulseRes>>
    /\ UNCHANGED nonAcquireVars

\* The terminal is resized while the handler of start() is installed.
Resize ==
    /\ sigwinch = "_winch"
    /\ \E col \in TermCols :
         /\ _width' = Winch(_width, outfile, col)
         /\ _width' # _width
    /\ UNCHANGED <<statVars, _id, _signal, sigwinch, outfile, items, idsGiven,
                   nFetch, out, pulseRes, phase, lastOp>>
    /\ UNCHANGED nonAcquireVars

\* TextFetch if fetch() did not look at item.owner.complete.
TextFetch_NoCompleteCheck(item, id) == <<[item EXCEPT !.id = id], id + 1>>

\* text.py lines 141-146: <<the item, self._id>> after fetch(item).
TextFetch(item, id) ==
    IF item.complete THEN <<item, id>>
    ELSE <<[item EXCEPT !.id = id], id + 1>>

\* The transport's bookkeeping when it reports an item as being fetched:
\* the item counts for the totals from its first fetch on.
AccountFetch(item, tb, ti) ==
    IF item.state = "queued" /\ ~item.complete
    THEN <<tb + item.filesize, ti + 1>>
    ELSE <<tb, ti>>

\* text.py lines 138-151.
Fetch(i) ==
    /\ phase = "running"
    /\ nFetch < MaxFetch
    /\ items[i].state \in {"queued", "fetching", "done", "hit"}
    /\ LET f == TextFetch(items[i], _id)
           t == AccountFetch(items[i], total_bytes, total_items)
       IN /\ items' = [items EXCEPT ![i] =
                          [f[1] EXCEPT !.state =
                              IF @ = "queued" THEN "fetching" ELSE @]]
          /\ _id' = f[2]
          /\ idsGiven' = IF items[i].complete THEN idsGiven
                         ELSE Append(idsGiven, f[1].id)
          /\ out' = IF items[i].complete THEN out
                    ELSE "Get"
          /\ total_bytes' = t[1]
          /\ total_items' = t[2]
    /\ nFetch' = nFetch + 1
    /\ lastOp' = <<"fetch", i>>
    /\ UNCHANGED <<current_bytes, current_cps, fetched_bytes, last_bytes,
                   current_items, elapsed_time, _width, _signal, sigwinch,
                   outfile, pulseRes, phase>>
    /\ UNCHANGED nonAcquireVars

\* The transport's bookkeeping when an item is completely fetched:
\* <<current_bytes, fetched_bytes, current_items>>.
AccountDone(item, cb, fb, ci) ==
    <<cb + item.filesize, fb + item.filesize, ci + 1>>

\* base.py lines 29-31 (text.py does not override done).
Done(i) ==
    /\ phase = "running"
    /\ items[i].state = "fetching"
    /\ LET d == AccountDone(items[i], current_bytes, fetched_bytes, current_items)
       IN /\ current_bytes' = d[1]
          /\ fetched_bytes' = d[2]
          /\ current_items' = d[3]
    /\ items' = [items EXCEPT ![i].state = "done", ![i].complete = TRUE]
    /\ lastOp' = <<"done", 0>>
    /\ UNCHANGED <<current_cps, last_bytes, total_bytes, elapsed_time,
                   total_items, _id, _width, _signal, sigwinch, outfile,
                   idsGiven, nFetch, out, pulseRes, phase>>
    /\ UNCHANGED nonAcquireVars

\* text.py lines 128-136: "Ign" when the item's status is STAT_DONE, else
\* "Err" and the error text.
Fail(i) ==
    /\ phase = "running"
    /\ items[i].state = "fetching"
    /\ items' = [items EXCEPT ![i].state = "failed"]
    /\ \E stat_done \in BOOLEAN :
         out' = (IF stat_done THEN "Ign" ELSE "Err")
    /\ lastOp' = <<"fail", 0>>
    /\ UNCHANGED <<statVars, _id, _width, _signal, sigwinch, outfile, idsGiven,
                   nFetch, pulseRes, phase>>
    /\ UNCHANGED nonAcquireVars

\* text.py lines 119-126.
ImsHit(i) ==
    /\ phase = "running"
    /\ items[i].state = "queued"
    /\ items' = [items EXCEPT ![i].state = "hit", ![i].complete = TRUE]
    /\ out' = "Hit"
    /\ lastOp' = <<"ims_hit", 0>>
    /\ UNCHANGED <<statVars, _id, _width, _signal, sigwinch, outfile, idsGiven,
                   nFetch, pulseRes, phase>>
    /\ UNCHANGED nonAcquireVars

\* The workers pulse() is shown: no item and no status, a status text, an
\* item with an id, an item without (lengths of the texts, sizes in bytes).
Workers == {
    [current_item |-> FALSE, status |-> 0, id |-> 0, shortdesc |-> 0,
     description |-> 0, subprocess |-> 0, current_size |-> 0, total_size |-> 0,
     complete |-> FALSE],
    [current_item |-> FALSE, status |-> 7, id |-> 0, shortdesc |-> 0,
     description |-> 0, subprocess |-> 0, current_size |-> 0, total_size |-> 0,
     complete |-> FALSE],
    [current_item |-> TRUE, status |-> 0, id |-> 1, shortdesc |-> 3,
     description |-> 9, subprocess |-> 0, current_size |-> 5, total_size |-> 10,
     complete |-> FALSE],
    [current_item |-> TRUE, status |-> 0, id |-> 0, shortdesc |-> 3,
     description |-> 9, subprocess |-> 4, current_size |-> 5, total_size |-> 0,
     complete |-> FALSE]
}

WorkerLists == UNION {[1..n -> Workers] : n \in 0..MaxWorkers}

\* text.py lines 189-205: the length of the fragment of a worker with an item.
ItemFragmentLen(w) ==
    (IF w.id # 0 THEN 2 + Digits(w.id) + 1 + w.shortdesc
     ELSE 2 + w.description)
    + (IF w.subprocess # 0 THEN 1 + w.subprocess ELSE 0)
    + (1 + SizeToStrLen(w.current_size) + 1)
    + (IF w.total_size # 0 /\ ~w.complete
       THEN 1 + SizeToStrLen(w.total_size) + 2
            + Digits((w.current_size * 100) \div w.total_size) + 1
       ELSE 0)
    + 1

\* text.py lines 177-211: the loop over the workers from the k-th on;
\* <<len(tval), shown>> when it ends.
RECURSIVE Fragments(_, _, _, _, _, _)
Fragments(workers, k, tlen, shown, endLen, width) ==
    IF k > Len(workers) THEN <<tlen, shown>>
    ELSE LET w == workers[k]
         IN IF ~w.current_item THEN
                IF w.status # 0 THEN
                    IF tlen + (w.status + 3) + endLen >= width
                    THEN <<tlen, shown>>
                    ELSE Fragments(workers, k + 1, tlen + w.status + 3, TRUE,
                                   endLen, width)
                ELSE Fragments(workers, k + 1, tlen, shown, endLen, width)
            ELSE IF tlen + ItemFragmentLen(w) + endLen >= width
                 THEN <<tlen, TRUE>>
                 ELSE Fragments(workers, k + 1, tlen + ItemFragmentLen(w), TRUE,
                                endLen, width)

\* text.py lines 160-162: pulse() returns at once on a file that is no tty.
PulseSkips(file) == file = "file"

\* text.py lines 165-166: the division raises ZeroDivisionError on a zero
\* divisor, and gives the percent otherwise.
PulseDivisionFails(tb, ti) == tb + ti = 0

PulsePercent(cb, ci, tb, ti) == ((cb + ci) * 100) \div (tb + ti)

\* text.py lines 168-217: the length of the line pulse() writes.
PulseLineLen(pct, cps, tb, cb, workers, width) ==
    LET endLen == IF cps # 0
                  THEN 1 + SizeToStrLen(cps) + 4 + TimeToStrLen((tb - cb) \div cps)
                  ELSE 0
        f == Fragments(workers, 1, Digits(pct) + 1, FALSE, endLen, width)
        tlen == IF f[2] THEN f[1] ELSE f[1] + 10
        pad == IF width - endLen - tlen > 0 THEN width - endLen - tlen ELSE 0
    IN IF cps # 0 THEN tlen + pad + endLen ELSE tlen

\* text.py lines 153-220, after the transport set the current rate.  Of the
\* line written only its kind is kept here; PulseLineLen gives its length.
Pulse ==
    /\ phase = "running"
    /\ \E cps \in CpsValues : current_cps' = cps
    /\ IF PulseSkips(outfile) THEN
           /\ pulseRes' = "True"
           /\ out' = out
       ELSE IF PulseDivisionFails(total_bytes, total_items) THEN
           /\ pulseRes' = "ZeroDivisionError"
           /\ out' = out
       ELSE
           /\ pulseRes' = "True"
           /\ out' = "pulse"
    /\ lastOp' = <<"pulse", 0>>
    /\ UNCHANGED <<current_bytes, fetched_bytes, last_bytes, total_bytes,
                   current_items, elapsed_time, total_items, _id, _width,
                   _signal, sigwinch, outfile, items, idsGiven, nFetch, phase>>
    /\ UNCHANGED nonAcquireVars

\* text.py lines 231-243.
Stop ==
    /\ phase = "running"
    /\ phase' = "stopped"
    /\ out' = "Fetched"
    /\ sigwinch' = _signal
    /\ lastOp' = <<"stop", 0>>
    /\ UNCHANGED <<statVars, _id, _width, _signal, outfile, items, idsGiven,
                   nFetch, pulseRes>>
    /\ UNCHANGED nonAcquireVars

AcquireInit ==
    /\ InstallConstructed
    /\ ExpandIdle
    /\ DistInfoIdle
    /\ \E file \in OutFiles : AcquireConstructed(file)

AcquireNext ==
    \/ Start
    \/ Resize
    \/ \E i \in Items : Fetch(i)
    \/ \E i \in Items : Done(i)
    \/ \E i \in Items : Fail(i)
    \/ \E i \in Items : ImsHit(i)
    \/ Pulse
    \/ Stop

AcquireSpec == AcquireInit /\ [][AcquireNext]_vars

(***************************************************************************)
(* aptsources.distinfo._expand_template: a generator over the paragraphs   *)
(* of a template document and the rows of a release table.  A paragraph    *)
(* (a TagSection) is the sequence of its lines, a line is                  *)
(* <<field, value>>, the value a sequence of tokens; "{series}" and        *)
(* "{version}" are the replacement fields str.format fills in.             *)
(***************************************************************************)
MaxSections == 3
MaxRows == 3

Paragraphs == {
    <<<<"ChangelogURI", <<"http://c">>>>,
      <<"X-Exclude-Suites", <<"s1", ", ", "old">>>>>>,
    <<<<"Suite", <<"s3">>>>,
      <<"BaseURI", <<"http://a">>>>>>,
    <<<<"Suite", <<"devel">>>>,
      <<"X-Exclude-Suites", <<"s2">>>>>>,
    <<<<"Suite", <<"{series}">>>>,
      <<"X-Version", <<"ge", ":", "2.0">>>>,
      <<"Description", <<"v", "{version}">>>>>>,
    <<<<"Suite", <<"{series}", "-updates">>>>,
      <<"X-Version", <<"le", ":", "3.0", ", ", "ge", ":", "2.0">>>>,
      <<"ParentSuite", <<"{series}">>>>>>,
    <<<<"Suite", <<"{series}", "-security">>>>,
      <<"X-Exclude-Suites", <<"s10">>>>>>
}

Rows == {
    [series |-> "s1", version |-> <<"1.0">>],
    [series |-> "s2", version |-> <<"2.0", " LTS">>],
    [series |-> "s3", version |-> <<"3.0">>],
    [series |-> "s10", version |-> <<"10.0">>]
}

\* The sequences of at most n different elements of S.
SeqsOfDistinct(S, n) ==
    UNION {{q \in [1..k -> S] : \A i, j \in 1..k : i # j => q[i] # q[j]} :
           k \in 0..n}

Documents == SeqsOfDistinct(Paragraphs, MaxSections)
Tables == SeqsOfDistinct(Rows, MaxRows)

\* "f" in section, section["f"].
HasField(section, f) == \E k \in 1..Len(section) : section[k][1] = f

Field(section, f) ==
    section[CHOOSE k \in 1..Len(section) :
                /\ section[k][1] = f
                /\ \A j \in 1..(k - 1) : section[j][1] # f][2]

\* "{" in value
HasBrace(value) ==
    \E k \in 1..Len(value) : value[k] \in {"{series}", "{version}"}

\* Lines 36, 62, 84, 90: a templated paragraph.
Templated(section) ==
    HasField(section, "Suite") /\ HasBrace(Field(section, "Suite"))

\* value.split(", ")
RECURSIVE SplitList(_)
SplitList(value) ==
    LET seps == {k \in 1..Len(value) : value[k] = ", "}
    IN IF seps = {} THEN <<value>>
       ELSE LET k == CHOOSE x \in seps : \A y \in seps : x <= y
            IN <<SubSeq(value, 1, k - 1)>>
               \o SplitList(SubSeq(value, k + 1, Len(value)))

Range(q) == {q[k] : k \in 1..Len(q)}

\* Lines 33-34: the suites an X-Exclude-Suites field names.
Excluded(section) ==
    IF HasField(section, "X-Exclude-Suites")
    THEN Range(SplitList(Field(section, "X-Exclude-Suites")))
    ELSE {}

\* str(section).splitlines()
SectionLines(section) == section

\* The lines a pass yields, with where they come from: the kind of the
\* pass, the paragraph and the series of the release row ("" if none).
Entry(line, kind, s, series) ==
    [line |-> line, kind |-> kind, sec |-> s, row |-> series]

Entries(lines, kind, s, series) ==
    [k \in 1..Len(lines) |-> Entry(lines[k], kind, s, series)]

BlankLine == <<"", <<>>>>

\* rel["version"].replace(" LTS", "")
StripLTS(version) == SelectSeq(version, LAMBDA tok : tok # " LTS")

\* apt_pkg.version_compare on the versions of the model: the digit runs
\* compare as numbers ("10.0" is later than "3.0").
VersionParts(v) ==
    CASE v = <<"1.0">> -> <<1, 0>>
      [] v = <<"2.0">> -> <<2, 0>>
      [] v = <<"3.0">> -> <<3, 0>>
      [] v = <<"10.0">> -> <<10, 0>>

VersionCompare(a, b) ==
    LET x == VersionParts(a)
        y == VersionParts(b)
    IN IF x[1] # y[1] THEN x[1] - y[1] ELSE x[2] - y[2]

\* ConstraintFails with both bounds exclusive.
ConstraintFails_Exclusive(field, ver) ==
    \/ /\ field # <<>> /\ field[1] = "le"
       /\ VersionCompare(SubSeq(field, 3, Len(field)), ver) <= 0
    \/ /\ field # <<>> /\ field[1] = "ge"
       /\ VersionCompare(SubSeq(field, 3, Len(field)), ver) >= 0

\* Lines 68-71: one constraint of X-Version rules the release out.  field[3:]
\* drops the two letters and the colon.
ConstraintFails(field, ver) ==
    \/ /\ field # <<>> /\ field[1] = "le"
       /\ VersionCompare(SubSeq(field, 3, Len(field)), ver) < 0
    \/ /\ field # <<>> /\ field[1] = "ge"
       /\ VersionCompare(SubSeq(field, 3, Len(field)), ver) > 0

\* Lines 64-73: the paragraph is skipped for the release.
VersionSkips(section, rel) ==
    /\ HasField(section, "X-Version")
    /\ \E field \in Range(SplitList(Field(section, "X-Version"))) :
         ConstraintFails(field, rel.version)

\* str.format(**rel) on a value.
RECURSIVE FormatValue(_, _)
FormatValue(value, rel) ==
    IF value = <<>> THEN <<>>
    ELSE (CASE Head(value) = "{series}" -> <<rel.series>>
            [] Head(value) = "{version}" -> rel.version
            [] OTHER -> <<Head(value)>>)
         \o FormatValue(Tail(value), rel)

\* Lines 75-78: the lines of a templated paragraph for a release.
FormatSection(section, rel) ==
    SelectSeq([k \in 1..Len(section) |->
                   <<section[k][1], FormatValue(section[k][2], rel)>>],
              LAMBDA line : line[1] # "X-Version")

\* Lines 59-78: the block of a release, from the s-th paragraph on.
RECURSIVE Block(_, _, _)
Block(doc, s, rel) ==
    IF s > Len(doc) THEN <<>>
    ELSE (IF ~Templated(doc[s]) \/ VersionSkips(doc[s], rel) THEN <<>>
          ELSE Entries(FormatSection(doc[s], rel), "block", s, rel.series))
         \o Block(doc, s + 1, rel)

\* Index of the first templated paragraph, 0 if there is none.
FirstTemplated(doc) ==
    IF \E s \in 1..Len(doc) : Templated(doc[s])
    THEN CHOOSE s \in 1..Len(doc) :
             /\ Templated(doc[s])
             /\ \A r \in 1..(s - 1) : ~Templated(doc[r])
    ELSE 0

\* FooterStart if the last pass did not skip the head.
FooterStart_CopiesHead(doc) == 1

\* Lines 83-85: where the second loop of the last pass starts.
FooterStart(doc) ==
    IF FirstTemplated(doc) = 0 THEN Len(doc) + 1 ELSE FirstTemplated(doc) + 1

\* Lines 87-93: the rest of the last pass, from the s-th paragraph on.
RECURSIVE Footer(_, _)
Footer(doc, s) ==
    IF s > Len(doc) THEN <<>>
    ELSE (IF Templated(doc[s]) THEN <<>>
          ELSE Entries(SectionLines(doc[s]), "footer", s, ""))
         \o Footer(doc, s + 1)

\* AfterHeader if the first loop had no else clause.
AfterHeader_NoReturn(broke) == IF broke THEN "gather" ELSE "csv"

\* Lines 37, 42-44: the first loop ended by break, or ran out of paragraphs.
AfterHeader(broke) == IF broke THEN "gather" ELSE "done"

\* Releases in file order.
Releases_FileOrder(rows) == rows

\* Line 51: reversed(list(csv.DictReader(csv_object)))
Releases(rows) == [k \in 1..Len(rows) |-> rows[Len(rows) + 1 - k]]

\* SuiteOf if no Suite value were registered.
SuiteOf_Ignored(section) == {}

\* Lines 35-39, 47-48: the Suite value a paragraph adds to known_suites.
SuiteOf(section) ==
    IF HasField(section, "Suite") THEN {Field(section, "Suite")} ELSE {}

\* _expand_template(template, csv_path) is called.
ExpandCalled(doc, table) ==
    /\ template = doc
    /\ csv_rows = table
    /\ known_suites = {}
    /\ releases = <<>>
    /\ epc = "header"
    /\ sec_i = 1
    /\ rel_i = 1
    /\ yielded = <<>>
    /\ csv_opens = 0

\* Lines 31-44: one round of the first loop.
ExpandHeader ==
    /\ epc = "header"
    /\ IF sec_i > Len(template) THEN
           /\ epc' = AfterHeader(FALSE)
           /\ UNCHANGED <<known_suites, sec_i, yielded>>
       ELSE LET section == template[sec_i]
                known == known_suites \cup Excluded(section)
            IN IF Templated(section) THEN
                   /\ epc' = AfterHeader(TRUE)
                   /\ known_suites' = known
                   /\ sec_i' = sec_i + 1
                   /\ yielded' = yielded
               ELSE
                   /\ epc' = epc
                   /\ known_suites' = known \cup SuiteOf(section)
                   /\ sec_i' = sec_i + 1
                   /\ yielded' = yielded
                         \o Entries(SectionLines(section), "header", sec_i, "")
    /\ UNCHANGED <<template, csv_rows, releases, rel_i, csv_opens>>
    /\ UNCHANGED nonExpandVars

\* Lines 46-48: one round of the second loop, on the same iterator.
ExpandGather ==
    /\ epc = "gather"
    /\ IF sec_i > Len(template) THEN
           /\ epc' = "csv"
           /\ UNCHANGED <<known_suites, sec_i>>
       ELSE
           /\ epc' = epc
           /\ known_suites' = known_suites \cup SuiteOf(template[sec_i])
           /\ sec_i' = sec_i + 1
    /\ UNCHANGED <<template, csv_rows, releases, rel_i, yielded, csv_opens>>
    /\ UNCHANGED nonExpandVars

\* Lines 50-51: the release table is read.
ExpandReadCsv ==
    /\ epc = "csv"
    /\ epc' = "rows"
    /\ csv_opens' = csv_opens + 1
    /\ releases' = Releases(csv_rows)
    /\ rel_i' = 1
    /\ UNCHANGED <<template, csv_rows, known_suites, sec_i, yielded>>
    /\ UNCHANGED nonExpandVars

\* Lines 54-78: one release.
ExpandRow ==
    /\ epc = "rows"
    /\ IF rel_i > Len(releases) THEN
           /\ epc' = "footer"
           /\ UNCHANGED <<releases, rel_i, yielded>>
       ELSE LET rel == releases[rel_i]
                stripped == [rel EXCEPT !.version = StripLTS(@)]
            IN /\ epc' = epc
               /\ rel_i' = rel_i + 1
               /\ IF <<rel.series>> \in known_suites THEN
                      UNCHANGED <<releases, yielded>>
                  ELSE
                      /\ releases' = [releases EXCEPT ![rel_i] = stripped]
                      /\ yielded' = yielded
                            \o <<Entry(BlankLine, "blank", 0, rel.series)>>
                            \o Block(template, 1, stripped)
    /\ UNCHANGED <<template, csv_rows, known_suites, sec_i, csv_opens>>
    /\ UNCHANGED nonExpandVars

\* Lines 80-93: the last pass.
ExpandFooter ==
    /\ epc = "footer"
    /\ epc' = "done"
    /\ yielded' = yielded \o Footer(template, FooterStart(template))
    /\ UNCHANGED <<template, csv_rows, known_suites, releases, sec_i, rel_i,
                   csv_opens>>
    /\ UNCHANGED nonExpandVars

ExpandInit ==
    /\ InstallConstructed
    /\ AcquireConstructed("tty")
    /\ DistInfoIdle
    /\ \E doc \in Documents, table \in Tables : ExpandCalled(doc, table)

ExpandNext ==
    \/ ExpandHeader
    \/ ExpandGather
    \/ ExpandReadCsv
    \/ ExpandRow
    \/ ExpandFooter

ExpandSpec == ExpandInit /\ [][ExpandNext]_vars

(***************************************************************************)
(* aptsources.distinfo.DistInfo.__init__: the templates built from the     *)
(* lines _expand_template yields.  A line is a sequence of tokens, split   *)
(* and stripped as in the status decoder.  An attribute that can be None   *)
(* is <<>> for None and <<v>> for the value v.                             *)
(***************************************************************************)
MaxLines == 6

None == <<>>
Some(v) == <<v>>

\* bool(x) of an attribute that is None or a text.
Truthy(x) == x # None /\ x[1] # <<>>

\* 'BaseURI-%s' % self.arch and the like, with APT::Architecture "amd64".
ArchField(name) ==
    CASE name = "BaseURI" -> <<"BaseURI-amd64">>
      [] name = "MatchURI" -> <<"MatchURI-amd64">>
      [] name = "MirrorsFile" -> <<"MirrorsFile-amd64">>

\* apt_pkg.string_to_bool: 1, 0, or -1 for what it does not know.  The
\* defaults True of Template.__init__ are 1.
StringToBool(value) ==
    IF value \in {<<"yes">>, <<"true">>} THEN 1
    ELSE IF value \in {<<"no">>, <<"false">>} THEN 0
    ELSE -1

\* self.dist
Dist == <<"Debian">>

\* NewTemplate if match_name were the bare suite name.
NewTemplate_NoAnchor(value) ==
    [name |-> value, child |-> FALSE, parents |-> <<>>,
     match_name |-> value, description |-> None,
     base_uri |-> None, type |-> None, components |-> <<>>,
     children |-> <<>>, match_uri |-> None, mirror_set |-> {},
     distribution |-> Dist, available |-> 1, official |-> 1,
     declared |-> {}, mirrors_path |-> None]

\* Lines 96-112, 260-263: Template() for a Suite line.  declared (the fields
\* read in the template's paragraph so far) and mirrors_path (the path its
\* mirror set was last read from) are no attributes of the class: they
\* record the paragraph for the properties below.  parents and children
\* hold positions in self.templates.
NewTemplate(value) ==
    [name |-> value, child |-> FALSE, parents |-> <<>>,
     match_name |-> <<"^">> \o value \o <<"$">>, description |-> None,
     base_uri |-> None, type |-> None, components |-> <<>>,
     children |-> <<>>, match_uri |-> None, mirror_set |-> {},
     distribution |-> Dist, available |-> 1, official |-> 1,
     declared |-> {}, mirrors_path |-> None]

\* Lines 127-133: Component(value).
NewComponent(value) ==
    [name |-> value, description |-> None, description_long |-> None,
     parent_component |-> None]

\* HasComponent if it never found a component.
HasComponent_Never(t, name) == FALSE

\* Lines 114-116: Template.has_component.
HasComponent(t, name) ==
    \E k \in 1..Len(t.components) : t.components[k].name = name

\* Lines 290-291: os.path.isabs, os.path.abspath(os.path.join(base_dir, .)).
IsAbs(value) == value \in MirrorPaths

Resolve(value) ==
    IF IsAbs(value) THEN value
    ELSE CASE value = <<"mirrors">> -> <<"/base/mirrors">>
           [] value = <<"other">> -> <<"/base/other">>

\* Lines 293-311: the mirror set (its hostnames) parsed from a file that
\* could be read, and the empty one of a file that could not.
FileHosts(path) ==
    CASE path = <<"/base/mirrors">> -> {"h1"}
      [] path = <<"/base/other">> -> {"h2"}

OpenOutcomes == {"ok", "fail"}

ReadMirrorSet(path, outcome) ==
    IF outcome = "ok" THEN FileHosts(path) ELSE {}

\* CacheAfterRead if a file that could not be read were not remembered.
CacheAfterRead_OnlyRead(map, path, set, outcome) ==
    IF outcome = "ok" THEN map @@ (path :> set) ELSE map

\* Line 312: map_mirror_sets[value] = mirror_set.
CacheAfterRead(map, path, set, outcome) == map @@ (path :> set)

\* The first parent with a match_uri, as a position in parents (0 if none).
FirstWithMatchUri_Last(parents, tmpls) ==
    LET good == {k \in 1..Len(parents) : Truthy(tmpls[parents[k]].match_uri)}
    IN IF good = {} THEN 0
       ELSE CHOOSE k \in good : \A j \in good : j <= k

\* Lines 337-340, 342-345: for t in template.parents: if t.match_uri: ... break
FirstWithMatchUri(parents, tmpls) ==
    LET good == {k \in 1..Len(parents) : Truthy(tmpls[parents[k]].match_uri)}
    IN IF good = {} THEN 0
       ELSE CHOOSE k \in good : \A j \in good : k <= j

\* Lines 336-340.
InheritMatchUri(t, tmpls) ==
    IF t.match_uri = None /\ t.child /\ FirstWithMatchUri(t.parents, tmpls) # 0
    THEN [t EXCEPT !.match_uri =
              tmpls[t.parents[FirstWithMatchUri(t.parents, tmpls)]].match_uri]
    ELSE t

\* Lines 341-345.
InheritMirrorSet(t, tmpls) ==
    IF t.mirror_set = {} /\ t.child /\ FirstWithMatchUri(t.parents, tmpls) # 0
    THEN [t EXCEPT !.mirror_set =
              tmpls[t.parents[FirstWithMatchUri(t.parents, tmpls)]].mirror_set]
    ELSE t

\* Lines 346-348.
FlushComponent(t, comp) ==
    IF comp # None /\ ~HasComponent(t, comp[1].name)
    THEN [t EXCEPT !.components = Append(@, comp[1])]
    ELSE t

\* InheritOfficial if the parents' flag were not looked at.
InheritOfficial_KeepsOwn(t, tmpls) == t

\* Lines 349-351: for t in template.parents: template.official = t.official
InheritOfficial(t, tmpls) ==
    IF t.parents = <<>> THEN t
    ELSE [t EXCEPT !.official = tmpls[t.parents[Len(t.parents)]].official]

\* AddTemplate if the template were put in front of the list.
AddTemplate_Front(tmpls, t) == <<t>> \o tmpls

\* Line 352: self.templates.append(template)
AddTemplate(tmpls, t) == Append(tmpls, t)

\* Lines 331-352: self.templates after finish_template(template, component).
FinishTemplate(cur, comp, tmpls) ==
    IF cur = None THEN tmpls
    ELSE AddTemplate(tmpls,
                     InheritOfficial(
                         FlushComponent(
                             InheritMirrorSet(InheritMatchUri(cur[1], tmpls),
                                              tmpls),
                             comp),
                         tmpls))

\* Nannies if the search stopped at the first template of the name.
Nannies_First(value, tmpls) ==
    LET all == SelectSeq([k \in 1..Len(tmpls) |-> k],
                         LAMBDA k : tmpls[k].name = value)
    IN IF all = <<>> THEN <<>> ELSE <<all[1]>>

\* Lines 266-272: the positions of the built templates a ParentSuite value
\* names, in the order of self.templates.
Nannies(value, tmpls) ==
    SelectSeq([k \in 1..Len(tmpls) |-> k], LAMBDA k : tmpls[k].name = value)

\* Lines 253-326: the if/elif chain for one field.  The result is the locals
\* and self.templates afterwards; err tells that the field raised (an
\* attribute of None was used).  outcome is how the open() of a mirror file
\* ends, should the field open one.  ChangelogURI and MetaReleaseURI set
\* attributes of the DistInfo that are not part of this model.
Handle(field, value, outcome) ==
    LET noT == cur_template = None
        t == cur_template[1]
        same == [cur |-> cur_template, comp |-> component, tmpls |-> templates,
                 map |-> map_mirror_sets, opens |-> opens, err |-> FALSE]
        raise == [same EXCEPT !.err = TRUE]
    IN IF field \in {<<"ChangelogURI">>, <<"MetaReleaseURI">>} THEN same
       ELSE IF field = <<"Suite">> THEN
           [same EXCEPT !.tmpls = FinishTemplate(cur_template, component, templates),
                        !.comp = None,
                        !.cur = Some(NewTemplate(value))]
       ELSE IF field = <<"MatchName">> THEN
           IF noT THEN raise
           ELSE [same EXCEPT !.cur = Some([t EXCEPT !.match_name = value])]
       ELSE IF field = <<"ParentSuite">> THEN
           IF noT THEN raise
           ELSE LET nannies == Nannies(value, templates)
                IN [same EXCEPT
                      !.cur = Some([t EXCEPT !.child = TRUE,
                                             !.parents = @ \o nannies]),
                      !.tmpls = [k \in 1..Len(templates) |->
                                   IF k \in Range(nannies)
                                   THEN [templates[k] EXCEPT !.children =
                                            Append(@, Len(templates) + 1)]
                                   ELSE templates[k]]]
       ELSE IF field = <<"Available">> THEN
           IF noT THEN raise
           ELSE [same EXCEPT !.cur = Some([t EXCEPT !.available = StringToBool(value)])]
       ELSE IF field = <<"Official">> THEN
           IF noT THEN raise
           ELSE [same EXCEPT !.cur = Some([t EXCEPT !.official = StringToBool(value)])]
       ELSE IF field = <<"RepositoryType">> THEN
           IF noT THEN raise
           ELSE [same EXCEPT !.cur = Some([t EXCEPT !.type = Some(value)])]
       ELSE IF field = <<"BaseURI">> /\ noT THEN raise
       ELSE IF field = <<"BaseURI">> /\ ~Truthy(t.base_uri) THEN
           [same EXCEPT !.cur = Some([t EXCEPT !.base_uri = Some(value)])]
       ELSE IF field = ArchField("BaseURI") THEN
           IF noT THEN raise
           ELSE [same EXCEPT !.cur = Some([t EXCEPT !.base_uri = Some(value)])]
       ELSE IF field = <<"MatchURI">> /\ noT THEN raise
       ELSE IF field = <<"MatchURI">> /\ ~Truthy(t.match_uri) THEN
           [same EXCEPT !.cur = Some([t EXCEPT !.match_uri = Some(value)])]
       ELSE IF field = ArchField("MatchURI") THEN
           IF noT THEN raise
           ELSE [same EXCEPT !.cur = Some([t EXCEPT !.match_uri = Some(value)])]
       ELSE IF field = <<"MirrorsFile">> \/ field = ArchField("MirrorsFile") THEN
           LET path == Resolve(value)
               cached == path \in DOMAIN map_mirror_sets
               mirror_set == IF cached THEN map_mirror_sets[path]
                             ELSE ReadMirrorSet(path, outcome)
               read == IF cached THEN same
                       ELSE [same EXCEPT
                               !.opens = [opens EXCEPT ![path] = @ + 1],
                               !.map = CacheAfterRead(map_mirror_sets, path,
                                                      mirror_set, outcome)]
           IN IF noT THEN [read EXCEPT !.err = TRUE]
              ELSE [read EXCEPT !.cur = Some([t EXCEPT !.mirror_set = mirror_set,
                                                       !.mirrors_path = Some(path)])]
       ELSE IF field = <<"Description">> THEN
           IF noT THEN raise
           ELSE [same EXCEPT !.cur = Some([t EXCEPT !.description = Some(value)])]
       ELSE IF field = <<"Component">> THEN
           IF component # None /\ noT THEN raise
           ELSE [same EXCEPT
                   !.cur = IF component # None /\ ~HasComponent(t, component[1].name)
                           THEN Some([t EXCEPT !.components = Append(@, component[1])])
                           ELSE cur_template,
                   !.comp = Some(NewComponent(value))]
       ELSE IF field = <<"CompDescription">> THEN
           IF component = None THEN raise
           ELSE [same EXCEPT !.comp = Some([component[1] EXCEPT
                                              !.description = Some(value)])]
       ELSE IF field = <<"CompDescriptionLong">> THEN
           IF component = None THEN raise
           ELSE [same EXCEPT !.comp = Some([component[1] EXCEPT
                                              !.description_long = Some(value)])]
       ELSE IF field = <<"ParentComponent">> THEN
           IF component = None THEN raise
           ELSE [same EXCEPT !.comp = Some([component[1] EXCEPT
                                              !.parent_component = Some(value)])]
       ELSE same

\* The field is noted as read in the paragraph of the current template.
Declare(cur, field, value) ==
    IF cur = None \/ field = <<"Suite">> THEN cur
    ELSE Some([cur[1] EXCEPT !.declared = @ \cup {<<field, value>>}])

\* The lines _expand_template yields (line 247), by subject; the last of
\* ComponentLines is the empty line between two paragraphs.
InheritLines == {
    <<"Suite", ":", " ", "a">>,
    <<"Suite", ":", " ", "b">>,
    <<"ParentSuite", ":", " ", "a">>,
    <<"MatchURI", ":", " ", "m1">>,
    <<"MatchURI", ":", " ", "m2">>,
    <<"Official", ":", " ", "no">>,
    <<"MirrorsFile", ":", " ", "mirrors">>
}

MirrorLines == {
    <<"Suite", ":", " ", "a">>,
    <<"Suite", ":", " ", "b">>,
    <<"ParentSuite", ":", " ", "b">>,
    <<"MatchURI", ":", " ", "m1">>,
    <<"MirrorsFile", ":", " ", "mirrors">>,
    <<"MirrorsFile", ":", " ", "/base/mirrors">>,
    <<"MirrorsFile-amd64", ":", " ", "other">>
}

ArchLines == {
    <<"Suite", ":", " ", "a">>,
    <<"BaseURI", ":", " ", "u1">>,
    <<"BaseURI-amd64", ":", " ", "u2">>,
    <<"BaseURI-i386", ":", " ", "u3">>,
    <<"MatchURI", ":", " ", "m1">>,
    <<"MatchURI-amd64", ":", " ", "m2">>,
    <<"MirrorsFile", ":", " ", "mirrors">>,
    <<"MirrorsFile-amd64", ":", " ", "other">>
}

ComponentLines == {
    <<"Suite", ":", " ", "a">>,
    <<"Component", ":", " ", "main">>,
    <<"Component", ":", " ", "extra">>,
    <<"CompDescription", ":", " ", "d">>,
    <<>>
}

NameLines == {
    <<"Suite", ":", " ", "a">>,
    <<"Suite", ":", " ", "b">>,
    <<"MatchName", ":", " ", "a.*">>,
    <<"MatchName", ":", " ", "b.*">>
}

Vocabularies == {InheritLines, MirrorLines, ArchLines, ComponentLines, NameLines}

\* DistInfo(dist, base_dir) is called.
DistInfoCalled(lines) ==
    /\ templates = <<>>
    /\ cur_template = None
    /\ component = None
    /\ map_mirror_sets = <<>>
    /\ opens = [path \in MirrorPaths |-> 0]
    /\ dpc = "running"
    /\ nLines = 0
    /\ vocabulary = lines
    /\ suite_lines = <<>>
    /\ mirror_files = <<>>
    /\ location = <<>>

\* Lines 247-326: one round of the loop over the lines.
DistInfoLine ==
    /\ dpc = "running"
    /\ nLines < MaxLines
    /\ nLines' = nLines + 1
    /\ \E line \in vocabulary, outcome \in OpenOutcomes :
         LET tokens == Split(line, 1)
         IN IF Len(tokens) < 2 THEN
                UNCHANGED <<templates, cur_template, component,
                            map_mirror_sets, opens, dpc, suite_lines>>
            ELSE LET field == Strip(tokens[1])
                     value == Strip(tokens[2])
                     h == Handle(field, value, outcome)
                 IN /\ templates' = h.tmpls
                    /\ cur_template' = Declare(h.cur, field, value)
                    /\ component' = h.comp
                    /\ map_mirror_sets' = h.map
                    /\ opens' = h.opens
                    /\ dpc' = IF h.err THEN "error" ELSE "running"
                    /\ suite_lines' = IF field = <<"Suite">>
                                      THEN Append(suite_lines, value)
                                      ELSE suite_lines
    /\ UNCHANGED vocabulary
    /\ UNCHANGED nonDistInfoVars

\* Lines 327-329: the stream has ended.
DistInfoEnd ==
    /\ dpc = "running"
    /\ dpc' = "done"
    /\ templates' = FinishTemplate(cur_template, component, templates)
    /\ cur_template' = None
    /\ component' = None
    /\ UNCHANGED <<map_mirror_sets, opens, nLines, vocabulary, suite_lines>>
    /\ UNCHANGED nonDistInfoVars

DistInfoInit ==
    /\ InstallConstructed
    /\ AcquireConstructed("tty")
    /\ ExpandIdle
    /\ \E lines \in Vocabularies : DistInfoCalled(lines)

DistInfoNext == DistInfoLine \/ DistInfoEnd

DistInfoSpec == DistInfoInit /\ [][DistInfoNext]_vars

(***************************************************************************)
(* Properties of InstallProgress.                                          *)
(***************************************************************************)
WaitChildReturned == ppc \in {"returned", "done"}
WaitChildOver == ppc \in {"returned", "done", "raised"}

\* C1: every line the child wrote before it exited has been read and decoded
\* when wait_child returns: no line is left in the status channel.
C1_NoLineLeftUnread == WaitChildReturned => pipe = <<>>

C3_ChildAlwaysExits == cpc # "escaped"

\* C4: an interrupted select or waitpid (EINTR) makes the loop go on, neither
\* returning nor raising; ECHILD from waitpid ends the loop normally; every
\* other error of select or waitpid is raised to the caller.
C4_ErrnoHandling ==
    [][/\ (ppc = "select" /\ ppc' # "select") =>
           /\ selRes' = "EINTR" => ppc' = "update"
           /\ selRes' \notin {"readable", "timeout", "EINTR"} => ppc' = "raised"
       /\ (ppc = "reap" /\ ppc' # "reap") =>
           /\ reapRes' = "EINTR" => ppc' = "select"
           /\ reapRes' = "ECHILD" => ppc' = "returned"
           /\ reapRes' \notin {"running", "pid", "EINTR", "ECHILD"} =>
                  ppc' = "raised"]_vars

C4_Witness ==
    /\ nEintr > 0
    /\ reapRes = "ECHILD"
    /\ ppc = "returned"

\* The pmstatus lines with a numeric percent, their percent and their
\* trimmed status text.
IsPmStatusLine(line) ==
    /\ StartsWith(line, "pm")
    /\ Len(Split(line, 3)) = 4
    /\ Strip(Split(line, 3)[1]) = <<"pmstatus">>
    /\ IsFloat(Split(line, 3)[3])

LinePercent(line) == FloatOf(Split(line, 3)[3])
LineStatus(line) == Strip(Split(line, 3)[4])

IsShortLine(line) ==
    \/ StartsWith(line, "pm") /\ Len(Split(line, 3)) < 4
    \/ StartsWith(line, "status") /\ Len(Split(line, 2)) < 3

\* C6: a pm line with fewer than 4 fields or a status line with fewer than 3
\* invokes no callback, raises no error and leaves percent, status and
\* child_pid as they were.
C6_ShortLineIgnored ==
    (nFed > 0 /\ IsShortLine(lastLine)) =>
        /\ calls = <<>>
        /\ uiErr = "none"
        /\ percent = prevPercent
        /\ status = prevStatus
        /\ child_pid = 0

\* C7: a readline that fails, with EAGAIN or with any other I/O error,
\* invokes no callback, leaves percent and status unchanged, raises nothing
\* and the loop goes on to its reap step.
C7_ReadErrorIgnored ==
    [][(ppc = "update" /\ ppc' # "update" /\ readRes' \in {"EAGAIN", "EIO"}) =>
           /\ calls' = <<>>
           /\ uiErr' = "none"
           /\ percent' = percent
           /\ status' = status
           /\ ppc' = "reap"]_vars

C7_Witness ==
    /\ readRes = "EIO"
    /\ ppc = "reap"
    /\ pipe # <<>>
    /\ percent = 50

(***************************************************************************)
(* Properties of text.AcquireProgress.                                     *)
(***************************************************************************)
\* C8: within a run begun by start() the ids given to the not yet complete
\* items passed to fetch are 1, 2, 3, ... in call order, and a fetch of a
\* complete item changes neither that item's id nor the next id.
C8_DisplayIds ==
    /\ [](phase = "running" =>
            /\ \A k \in 1..Len(idsGiven) : idsGiven[k] = k
            /\ _id = Len(idsGiven) + 1)
    /\ [][\A i \in Items :
            (nFetch' = nFetch + 1 /\ lastOp' = <<"fetch", i>>
             /\ items[i].complete) =>
                (items'[i].id = items[i].id /\ _id' = _id
                 /\ idsGiven' = idsGiven)]_vars

\* A complete item was fetched after two others, one of them done since.
C8_Witness ==
    /\ phase = "running"
    /\ idsGiven = <<1, 2>>
    /\ nFetch = 3
    /\ \E i \in Items : lastOp = <<"fetch", i>> /\ items[i].complete

RECURSIVE SumSizes(_)
SumSizes(S) ==
    IF S = {} THEN 0
    ELSE LET i == CHOOSE x \in S : TRUE
         IN items[i].filesize + SumSizes(S \ {i})

DoneItems == {i \in Items : items[i].state = "done"}
InFlight == {i \in Items : items[i].state = "fetching"}

C10_PulseToleratesEmpty ==
    (lastOp = <<"pulse", 0>> /\ total_bytes + total_items = 0) =>
        pulseRes = "True"

(***************************************************************************)
(* Properties of _expand_template.                                         *)
(***************************************************************************)
RECURSIVE Concat(_)
Concat(doc) == IF doc = <<>> THEN <<>> ELSE Head(doc) \o Concat(Tail(doc))

LinesOf(entries) == [k \in 1..Len(entries) |-> entries[k].line]
YieldedLines == LinesOf(yielded)
OfKind(kinds) == SelectSeq(yielded, LAMBDA e : e.kind \in kinds)

NoneTemplated == \A s \in 1..Len(template) : ~Templated(template[s])

\* C11: for a document without templated paragraph the generator yields
\* exactly the lines of the paragraphs, in order, and the release table is
\* never opened.
C11_PlainDocumentCopied ==
    (epc # "idle" /\ NoneTemplated) =>
        /\ csv_opens = 0
        /\ epc = "done" => YieldedLines = Concat(template)

C11_Witness ==
    /\ epc = "done"
    /\ NoneTemplated
    /\ Len(template) = 3
    /\ Len(csv_rows) = 2
    /\ Len(yielded) = 6

Rank(kind) ==
    CASE kind = "header" -> 1
      [] kind \in {"blank", "block"} -> 2
      [] kind = "footer" -> 3

HeaderParagraphs == SubSeq(template, 1, FirstTemplated(template) - 1)

FooterParagraphs ==
    SelectSeq(SubSeq(template, FirstTemplated(template) + 1, Len(template)),
              LAMBDA section : ~Templated(section))

\* The series of the rows that are no known suite, from the i-th row
\* backwards.
RECURSIVE UnknownBackwards(_)
UnknownBackwards(i) ==
    IF i = 0 THEN <<>>
    ELSE (IF <<csv_rows[i].series>> \in known_suites THEN <<>>
          ELSE <<csv_rows[i].series>>)
         \o UnknownBackwards(i - 1)

Occurrences(section) ==
    Cardinality({k \in 1..Len(yielded) :
                   /\ k + Len(section) - 1 <= Len(yielded)
                   /\ SubSeq(YieldedLines, k, k + Len(section) - 1) = section})

\* C13: every paragraph that is not templated is in the output exactly once,
\* wherever it stands; no templated paragraph is in the output as it is
\* written, and no output line holds a replacement field.
C13_ParagraphsOnce ==
    epc = "done" =>
        /\ \A s \in 1..Len(template) :
             Occurrences(template[s]) = IF Templated(template[s]) THEN 0 ELSE 1
        /\ \A k \in 1..Len(yielded) : ~HasBrace(yielded[k].line[2])

\* A paragraph between two templated ones, and a release expanded.
C13_Witness ==
    /\ epc = "done"
    /\ Len(template) = 3
    /\ Templated(template[1])
    /\ ~Templated(template[2])
    /\ Templated(template[3])
    /\ Len(OfKind({"block"})) > 0

\* Version order, and a release meeting every constraint of a paragraph.
VersionLeq(a, b) ==
    \/ VersionParts(a)[1] < VersionParts(b)[1]
    \/ /\ VersionParts(a)[1] = VersionParts(b)[1]
       /\ VersionParts(a)[2] <= VersionParts(b)[2]

MeetsConstraints(section, ver) ==
    HasField(section, "X-Version") =>
        \A c \in Range(SplitList(Field(section, "X-Version"))) :
            /\ c[1] = "le" => VersionLeq(ver, SubSeq(c, 3, Len(c)))
            /\ c[1] = "ge" => VersionLeq(SubSeq(c, 3, Len(c)), ver)

\* The Suite line of a templated paragraph expanded for a row.
ExpandedSuite(section, row) ==
    <<"Suite", FormatValue(Field(section, "Suite"),
                           [row EXCEPT !.version = StripLTS(@)])>>

\* C14: a templated paragraph is expanded for a release row that is no
\* known suite iff the row's version meets every le and every ge constraint
\* of its X-Version field (bounds inclusive, versions compared as versions);
\* no line of a block starts with X-Version.
C14_VersionGating ==
    epc = "done" =>
        /\ \A s \in 1..Len(template), i \in 1..Len(csv_rows) :
             (Templated(template[s])
              /\ <<csv_rows[i].series>> \notin known_suites) =>
                 (ExpandedSuite(template[s], csv_rows[i]) \in Range(YieldedLines)
                  <=> MeetsConstraints(template[s], StripLTS(csv_rows[i].version)))
        /\ \A k \in 1..Len(yielded) :
             yielded[k].kind = "block" => yielded[k].line[1] # "X-Version"

\* ge:2.0 and the rows 1.0, 2.0, 3.0: the rows 2.0 and 3.0 are expanded.
C14_Witness ==
    /\ epc = "done"
    /\ {csv_rows[i].series : i \in 1..Len(csv_rows)} = {"s1", "s2", "s3"}
    /\ known_suites \cap {<<"s1">>, <<"s2">>, <<"s3">>} = {}
    /\ <<"Suite", <<"s1">>>> \notin Range(YieldedLines)
    /\ <<"Suite", <<"s2">>>> \in Range(YieldedLines)
    /\ <<"Suite", <<"s3">>>> \in Range(YieldedLines)

(***************************************************************************)
(* Properties of DistInfo.                                                 *)
(***************************************************************************)

\* The templates of self.templates, by position.
Built == 1..Len(templates)

\* The values the paragraph of t gave for a field.
DeclaredValues(t, name) == {d[2] : d \in {e \in t.declared : e[1] = <<name>>}}

Declares(t, name) == DeclaredValues(t, name) # {}

\* The first position of a sequence of template positions that meets a test,
\* 0 if none does.
FirstThat(parents, Test(_)) ==
    LET hits == {k \in 1..Len(parents) : Test(templates[parents[k]])}
    IN IF hits = {} THEN 0 ELSE CHOOSE k \in hits : \A j \in hits : k <= j

OwnMatchUri(t) == Declares(t, "MatchURI") \/ Declares(t, "MatchURI-amd64")

HasMatchUri(t) == Truthy(t.match_uri)

\* C15: a built child template whose paragraph has no MatchURI field has the
\* match_uri of the first of its parents, in the order they were linked,
\* whose match_uri is not empty; a child whose paragraph has a MatchURI field
\* has a value of its own paragraph.
C15_MatchUriInherited ==
    \A k \in Built :
        LET t == templates[k]
            first == FirstThat(t.parents, HasMatchUri)
        IN t.child =>
             /\ (~OwnMatchUri(t) /\ first # 0) =>
                    t.match_uri = templates[t.parents[first]].match_uri
             /\ OwnMatchUri(t) =>
                    /\ t.match_uri # None
                    /\ t.match_uri[1] \in DeclaredValues(t, "MatchURI")
                                          \cup DeclaredValues(t, "MatchURI-amd64")

\* A child without MatchURI was built whose two parents have different
\* match_uri values.
C15_Witness ==
    /\ dpc = "done"
    /\ \E k \in Built :
         LET t == templates[k]
         IN /\ t.child
            /\ ~OwnMatchUri(t)
            /\ Len(t.parents) = 2
            /\ HasMatchUri(templates[t.parents[1]])
            /\ HasMatchUri(templates[t.parents[2]])
            /\ templates[t.parents[1]].match_uri # templates[t.parents[2]].match_uri
            /\ t.match_uri = templates[t.parents[1]].match_uri

\* C16: a built template linked to a parent has the official flag of the
\* parent linked last, whatever its own paragraph says in an Official field.
C16_OfficialInherited ==
    \A k \in Built :
        LET t == templates[k]
        IN t.parents # <<>> =>
             t.official = templates[t.parents[Len(t.parents)]].official

\* A child whose paragraph says "Official: no" was built under an official
\* parent.
C16_Witness ==
    /\ dpc = "done"
    /\ \E k \in Built :
         LET t == templates[k]
         IN /\ t.parents # <<>>
            /\ <<"no">> \in DeclaredValues(t, "Official")
            /\ templates[t.parents[Len(t.parents)]].official = 1
            /\ t.official = 1

HasMirrorSet(t) == t.mirror_set # {}

OwnMirrorsFile(t) == Declares(t, "MirrorsFile") \/ Declares(t, "MirrorsFile-amd64")

\* C17: a built child template whose paragraph gave it no mirror set has the
\* mirror set of the first of its parents, in the order they were linked,
\* whose mirror set is not empty, whether or not that parent has a match_uri.
C17_MirrorSetInherited ==
    \A k \in Built :
        LET t == templates[k]
            first == FirstThat(t.parents, HasMirrorSet)
        IN (t.child /\ ~OwnMirrorsFile(t) /\ first # 0) =>
               t.mirror_set = templates[t.parents[first]].mirror_set

\* The paths the MirrorsFile fields of the paragraph of t resolve to.
ReferencedPaths(t) ==
    {Resolve(v) : v \in DeclaredValues(t, "MirrorsFile")
                        \cup DeclaredValues(t, "MirrorsFile-amd64")}

OpenedOnce == \A path \in MirrorPaths : opens[path] <= 1

\* C18 as stated: no mirror file is opened more than once, and two built
\* templates whose paragraphs reference the same resolved path have the same
\* mirror set.
C18_SamePathSameSet ==
    /\ OpenedOnce
    /\ \A j, k \in Built :
         ReferencedPaths(templates[j]) \cap ReferencedPaths(templates[k]) # {}
             => templates[j].mirror_set = templates[k].mirror_set

\* C18: no mirror file is opened more than once, a read that failed
\* included; a template whose last MirrorsFile field resolves to a path has
\* the one cached mirror set of that path, except that a built child for
\* which that set is empty may have the mirror set of one of its parents.
C18_MirrorFileCache ==
    /\ OpenedOnce
    /\ \A path \in DOMAIN map_mirror_sets : opens[path] = 1
    /\ cur_template # None /\ cur_template[1].mirrors_path # None =>
         /\ cur_template[1].mirrors_path[1] \in DOMAIN map_mirror_sets
         /\ cur_template[1].mirror_set =
                map_mirror_sets[cur_template[1].mirrors_path[1]]
    /\ \A k \in Built :
         LET t == templates[k]
         IN t.mirrors_path # None =>
              /\ t.mirrors_path[1] \in DOMAIN map_mirror_sets
              /\ \/ t.mirror_set = map_mirror_sets[t.mirrors_path[1]]
                 \/ /\ map_mirror_sets[t.mirrors_path[1]] = {}
                    /\ t.child
                    /\ \E p \in Range(t.parents) :
                         t.mirror_set = templates[p].mirror_set

\* Two templates were built from one mirror file whose only read failed.
C18_Witness ==
    /\ dpc = "done"
    /\ \E j, k \in Built :
         /\ j # k
         /\ templates[j].mirrors_path # None
         /\ templates[j].mirrors_path = templates[k].mirrors_path
         /\ opens[templates[j].mirrors_path[1]] = 1
         /\ map_mirror_sets[templates[j].mirrors_path[1]] = {}
         /\ templates[j].mirror_set = {}
         /\ templates[k].mirror_set = {}

\* A paragraph with BaseURI and BaseURI-<arch> gives the value of the latter.
ArchBaseUriWins ==
    \A k \in Built :
        LET t == templates[k]
        IN (Declares(t, "BaseURI") /\ Declares(t, "BaseURI-amd64")) =>
             /\ t.base_uri # None
             /\ t.base_uri[1] \in DeclaredValues(t, "BaseURI-amd64")

\* A paragraph with MatchURI and MatchURI-<arch> gives the value of the
\* latter.
ArchMatchUriWins ==
    \A k \in Built :
        LET t == templates[k]
        IN (Declares(t, "MatchURI") /\ Declares(t, "MatchURI-amd64")) =>
             /\ t.match_uri # None
             /\ t.match_uri[1] \in DeclaredValues(t, "MatchURI-amd64")

\* A paragraph with MirrorsFile and MirrorsFile-<arch> gives the mirror set
\* of the file the latter names.
ArchMirrorsFileWins ==
    \A k \in Built :
        LET t == templates[k]
        IN (Declares(t, "MirrorsFile") /\ Declares(t, "MirrorsFile-amd64")) =>
             \E v \in DeclaredValues(t, "MirrorsFile-amd64") :
                /\ Resolve(v) \in DOMAIN map_mirror_sets
                /\ t.mirror_set = map_mirror_sets[Resolve(v)]

\* C19: when a paragraph has both the neutral field and the field of the
\* current architecture, for BaseURI, MatchURI and MirrorsFile alike, the
\* template has the value of the field of the architecture, in either order.
C19_ArchSpecificWins ==
    /\ ArchBaseUriWins
    /\ ArchMatchUriWins
    /\ ArchMirrorsFileWins

\* The names of the components of t, in order.
ComponentNames(t) == [k \in 1..Len(t.components) |-> t.components[k].name]

DistinctNames(t) ==
    \A j, k \in 1..Len(t.components) :
        t.components[j].name = t.components[k].name => j = k

\* C20: at every moment no template, built or being read, has two components
\* of one name, and a built template has each component name of its paragraph
\* exactly once.
C20_ComponentsOnce ==
    /\ cur_template # None => DistinctNames(cur_template[1])
    /\ \A k \in Built :
         /\ DistinctNames(templates[k])
         /\ \A name \in DeclaredValues(templates[k], "Component") :
              Cardinality({j \in 1..Len(templates[k].components) :
                             ComponentNames(templates[k])[j] = name}) = 1

\* A template was built whose paragraph named one component twice: the
\* description belongs to the second, which was dropped.
C20_Witness ==
    /\ dpc = "done"
    /\ \E k \in Built :
         /\ <<"d">> \in DeclaredValues(templates[k], "CompDescription")
         /\ templates[k].components = <<NewComponent(<<"main">>)>>

(***************************************************************************)
(* More properties of InstallProgress.                                     *)
(***************************************************************************)
\* C27: run returns 0 only when the child's own wait status was collected
\* and says that the child exited with code 0: not when a signal killed the
\* child, and not when the reap ended with "no such child".
C27_ZeroMeansSuccess ==
    (ppc = "done" /\ runRes = 0) =>
        /\ reapRes = "pid"
        /\ res = exitStatus
        /\ exitStatus = ExitedStatus(0)

(***************************************************************************)
(* More properties of _expand_template.                                    *)
(***************************************************************************)
\* The Suite values of the paragraphs of a document that are not templated.
LiteralSuites(doc) ==
    {Field(doc[s], "Suite") :
        s \in {r \in 1..Len(doc) : HasField(doc[r], "Suite") /\ ~Templated(doc[r])}}

\* The paragraphs the scan of the header reads: all of them up to the first
\* templated one, that one included.
HeaderScan(doc) ==
    IF FirstTemplated(doc) = 0 THEN 1..Len(doc) ELSE 1..FirstTemplated(doc)

HeaderExcluded(doc) == UNION {Excluded(doc[s]) : s \in HeaderScan(doc)}

KnownRow(doc, row) == <<row.series>> \in LiteralSuites(doc) \cup HeaderExcluded(doc)

\* The positions of the output that belong to a release row.
RowPositions(row) == {k \in 1..Len(yielded) : yielded[k].row = row.series}

\* The output has exactly one block for the row: one blank line, and the
\* expanded lines of the row right after it.
OneBlock(row) ==
    LET at == RowPositions(row)
    IN /\ at # {}
       /\ \A j, k \in at : \A m \in j..k : m \in at
       /\ \A k \in at :
            yielded[k].kind = IF k - 1 \in at THEN "block" ELSE "blank"

RowsExpanded ==
    \A k \in 1..Len(csv_rows) :
        IF KnownRow(template, csv_rows[k])
        THEN RowPositions(csv_rows[k]) = {}
        ELSE OneBlock(csv_rows[k])

\* C23 as stated: when _expand_template has ended, a row whose series is a
\* literal Suite value of a paragraph, or an X-Exclude-Suites entry read with
\* the header, has no block, and every other row has one block introduced by
\* one blank line.
C23_RowsExpanded == epc = "done" => RowsExpanded

\* C23: the same for a template with a templated paragraph; for a template
\* without one no row has a block.
C23_RowsExpandedIfTemplated ==
    epc = "done" =>
        IF FirstTemplated(template) # 0 THEN RowsExpanded
        ELSE \A k \in 1..Len(csv_rows) : RowPositions(csv_rows[k]) = {}

\* A template ended in which one row is known by a Suite paragraph of the
\* footer, one by an X-Exclude-Suites entry of the header, and a third row
\* has its block.
C23_Witness ==
    /\ epc = "done"
    /\ FirstTemplated(template) # 0
    /\ \E j, k, m \in 1..Len(csv_rows) :
         /\ \E s \in (FirstTemplated(template) + 1)..Len(template) :
              /\ HasField(template[s], "Suite")
              /\ Field(template[s], "Suite") = <<csv_rows[j].series>>
         /\ <<csv_rows[k].series>> \in HeaderExcluded(template)
         /\ RowPositions(csv_rows[j]) = {}
         /\ RowPositions(csv_rows[k]) = {}
         /\ ~KnownRow(template, csv_rows[m])
         /\ Cardinality(RowPositions(csv_rows[m])) > 1

(***************************************************************************)
(* More properties of DistInfo.                                            *)
(***************************************************************************)
\* The templates that exist: the built ones by position, and the one being
\* read, which will be appended next.
CurrentPos == Len(templates) + 1

Existing == Built \cup (IF cur_template = None THEN {} ELSE {CurrentPos})

TemplateAt(k) == IF k \in Built THEN templates[k] ELSE cur_template[1]

Count(q, x) == Cardinality({k \in 1..Len(q) : q[k] = x})

\* C24: at every moment a template p is in the parents of a template t as
\* many times as t is in the children of p; the parents of a template are
\* the templates built before it whose name a ParentSuite field of its
\* paragraph gives, all of them and no other, so that a value that names no
\* built template links nothing.
C24_LinksSymmetric ==
    \A t \in Existing :
        /\ \A p \in Existing :
             Count(TemplateAt(t).parents, p) = Count(TemplateAt(p).children, t)
        /\ Range(TemplateAt(t).parents) =
               {p \in Built : /\ p < t
                              /\ TemplateAt(p).name
                                   \in DeclaredValues(TemplateAt(t), "ParentSuite")}
        /\ Range(TemplateAt(t).parents) \subseteq Built
        /\ Range(TemplateAt(t).children) \subseteq Existing

\* A child was built under the two templates of the name it gives, beside a
\* template of another name that it is not linked to.
C24_Witness ==
    /\ dpc = "done"
    /\ \E t, p, q, o \in Built :
         /\ p # q
         /\ templates[t].parents = <<p, q>>
         /\ templates[p].children = <<t>>
         /\ templates[q].children = <<t>>
         /\ templates[o].name # templates[p].name
         /\ o < t
         /\ templates[o].children = <<>>

\* The names of the templates built and being read, in order.
TemplateNames == [k \in 1..Cardinality(Existing) |-> TemplateAt(k).name]

Anchored(name) == <<"^">> \o name \o <<"$">>

\* The match_name of a template is the anchored name, or a MatchName value
\* of its paragraph when there is one.
MatchNameSet(t) ==
    IF Declares(t, "MatchName")
    THEN t.match_name \in DeclaredValues(t, "MatchName")
    ELSE t.match_name = Anchored(t.name)

\* C25: the templates built and being read are those of the Suite lines read
\* so far, one for each line and in the order of the lines; when DistInfo
\* ends every one of them is built; a template is built when the next Suite
\* line or the end of the stream is read, and stays.
C25_OneTemplatePerSuite ==
    /\ [](/\ TemplateNames = suite_lines
          /\ \A k \in Existing : MatchNameSet(TemplateAt(k))
          /\ dpc = "done" => cur_template = None /\ Len(templates) = Len(suite_lines))
    /\ [][/\ Len(templates') \in {Len(templates), Len(templates) + 1}
          /\ Len(templates') = Len(templates) + 1 =>
                /\ cur_template # None
                /\ \/ Len(suite_lines') = Len(suite_lines) + 1
                   \/ dpc' = "done"
          /\ \A k \in Built : templates'[k].name = templates[k].name
                              /\ templates'[k].match_name = templates[k].match_name
         ]_vars

\* DistInfo ended with two templates, the first with the MatchName of its
\* paragraph, the second, built at the end of the stream, with the anchored
\* name.
C25_Witness ==
    /\ dpc = "done"
    /\ Len(templates) = 2
    /\ <<"a.*">> \in DeclaredValues(templates[1], "MatchName")
    /\ templates[1].match_name = <<"a.*">>
    /\ ~Declares(templates[2], "MatchName")
    /\ templates[2].match_name = Anchored(templates[2].name)

\* C28: at every moment the parents of a template stand before it in the
\* list of templates (those of the template being read are all built), so
\* no template is its own parent or ancestor; and the match_uri, mirror_set
\* and official of a built template never change.
C28_ParentsBuiltBefore ==
    /\ [](\A t \in Existing : \A p \in Range(TemplateAt(t).parents) : p < t)
    /\ [][\A k \in Built :
             /\ k <= Len(templates')
             /\ templates'[k].match_uri = templates[k].match_uri
             /\ templates'[k].mirror_set = templates[k].mirror_set
             /\ templates'[k].official = templates[k].official
         ]_vars

\* A child was built that took match_uri and official from its parent.
C28_Witness ==
    /\ dpc = "done"
    /\ \E t \in Built :
         /\ templates[t].parents # <<>>
         /\ ~OwnMatchUri(templates[t])
         /\ templates[t].match_uri # None
         /\ templates[t].match_uri = templates[templates[t].parents[1]].match_uri
         /\ templates[t].official = 0

(***************************************************************************)
(* text.AcquireProgress.pulse with the line it writes: start(), then       *)
(* pulse(owner) for any counters and any workers, the terminal being       *)
(* resized in between.                                                     *)
(***************************************************************************)
\* The values the transport gives the counters before it calls pulse().
ByteCounts == {0, 10}
ItemCounts == {0, 2}

\* text.py lines 153-220: pulse(owner).
PulseDraw ==
    /\ phase = "running"
    /\ \E cps \in CpsValues, tb \in ByteCounts, cb \in ByteCounts,
          ti \in ItemCounts, ci \in ItemCounts, ws \in WorkerLists :
         /\ cb <= tb
         /\ ci <= ti
         /\ current_cps' = cps
         /\ total_bytes' = tb
         /\ current_bytes' = cb
         /\ total_items' = ti
         /\ current_items' = ci
         /\ owner_workers' = ws
         /\ IF PulseSkips(outfile) THEN
                /\ pulseRes' = "True"
                /\ out' = out
                /\ drawn' = <<>>
            ELSE IF PulseDivisionFails(tb, ti) THEN
                /\ pulseRes' = "ZeroDivisionError"
                /\ out' = out
                /\ drawn' = <<>>
            ELSE
                /\ pulseRes' = "True"
                /\ out' = "pulse"
                /\ drawn' = <<PulseLineLen(PulsePercent(cb, ci, tb, ti), cps,
                                           tb, cb, ws, _width),
                              _width>>
    /\ lastOp' = <<"pulse", 0>>
    /\ UNCHANGED <<fetched_bytes, last_bytes, elapsed_time, _id, _width,
                   _signal, sigwinch, outfile, items, idsGiven, nFetch, phase>>
    /\ UNCHANGED nonPulseVars

PulseInit == AcquireInit

PulseNext == Start \/ Resize \/ PulseDraw

PulseSpec == PulseInit /\ [][PulseNext]_vars

(***************************************************************************)
(* Properties of text.AcquireProgress.pulse.                               *)
(***************************************************************************)
\* C22: the line pulse() writes, with the percent, the fragments of the
\* workers or " [Working]", and the rate and time left at its end, is never
\* longer than self._width.
C22_LineFitsWidth == drawn # <<>> => drawn[1] <= drawn[2]

(***************************************************************************)
(* The MirrorsFile branch of DistInfo.__init__ with the lines of the       *)
(* mirror files: a Suite line has been read, and MirrorsFile fields follow *)
(* in any order.  A line of a mirror file is a sequence of tokens:         *)
(* "#LOC:" and a label, or a protocol, "://", a hostname, "/" and a        *)
(* directory, or something else.  Here a mirror set is the dict of line    *)
(* 293: a function from the hostnames to the Mirror objects.               *)
(***************************************************************************)
MaxMirrorLines == 3

MirrorFileLines == {
    <<"#LOC:", "DE">>,
    <<"#LOC:", "FR">>,
    <<"http", "://", "h1", "/", "debian">>,
    <<"#", " ", "mirrors">>
}

MirrorFileContents ==
    UNION {[1..n -> MirrorFileLines] : n \in 0..MaxMirrorLines}

Protocols == {"http", "ftp", "rsync", "file", "mirror", "https"}

\* Lines 222-224: match_mirror_line.match(line)
MatchMirrorLine(line) ==
    \/ Len(line) >= 2 /\ line[1] = "#LOC:"
    \/ Len(line) >= 3 /\ line[1] \in Protocols /\ line[2] = "://"

\* Line 303: line.startswith("#LOC:")
IsLocLine(line) == line # <<>> /\ line[1] = "#LOC:"

\* Lines 221, 304: match_loc.sub(r"\1", line)
LocLabel(line) == Tail(line)

\* Lines 205-210: split_url(line), for a line that is no marker.
SplitUrl(line) ==
    [proto |-> line[1],
     hostname |-> line[3],
     dir |-> IF Len(line) >= 5 THEN Some(SubSeq(line, 5, Len(line))) ELSE None]

\* Lines 162-166: Mirror(proto, hostname, dir, location); at is the number
\* of the line of the file that made it.
NewMirror(u, loc, k) ==
    [hostname |-> u.hostname, repositories |-> <<<<u.proto, u.dir>>>>,
     location |-> loc, at |-> k]

\* Lines 168-169: add_repository(proto, dir)
AddRepository(m, u) ==
    [m EXCEPT !.repositories = Append(@, <<u.proto, u.dir>>)]

\* Lines 296-311: the lines of a file from the k-th on; the result is the
\* mirror set and the local location afterwards.
RECURSIVE ParseMirrors(_, _, _, _)
ParseMirrors(lines, k, set, loc) ==
    IF k > Len(lines) THEN [set |-> set, loc |-> loc]
    ELSE IF ~MatchMirrorLine(lines[k]) THEN ParseMirrors(lines, k + 1, set, loc)
    ELSE IF IsLocLine(lines[k])
    THEN ParseMirrors(lines, k + 1, set, Some(LocLabel(lines[k])))
    ELSE LET u == SplitUrl(lines[k])
         IN IF u.hostname \in DOMAIN set
            THEN ParseMirrors(lines, k + 1,
                              [set EXCEPT ![u.hostname] = AddRepository(@, u)],
                              loc)
            ELSE ParseMirrors(lines, k + 1,
                              set @@ (u.hostname :> NewMirror(u, loc, k)),
                              loc)

\* Lines 293-311: the file is read, or the read fails and mirror_data is
\* empty.
ReadMirrors(lines, outcome, loc) ==
    IF outcome = "ok" THEN ParseMirrors(lines, 1, <<>>, loc)
    ELSE [set |-> <<>>, loc |-> loc]

\* DistInfo.__init__ has read a Suite line, with these mirror files on disk.
MirrorInit ==
    /\ InstallConstructed
    /\ AcquireConstructed("tty")
    /\ ExpandIdle
    /\ templates = <<>>
    /\ cur_template = Some(NewTemplate(<<"a">>))
    /\ component = None
    /\ map_mirror_sets = <<>>
    /\ opens = [path \in MirrorPaths |-> 0]
    /\ dpc = "running"
    /\ nLines = 1
    /\ vocabulary = {}
    /\ suite_lines = <<<<"a">>>>
    /\ mirror_files \in [MirrorPaths -> MirrorFileContents]
    /\ location = None

\* Lines 287-313: a MirrorsFile field with this value.
MirrorsFileField(value) ==
    /\ dpc = "running"
    /\ LET path == Resolve(value)
       IN IF path \in DOMAIN map_mirror_sets THEN
              /\ cur_template' = Some([cur_template[1] EXCEPT
                                         !.mirror_set = map_mirror_sets[path],
                                         !.mirrors_path = Some(path)])
              /\ UNCHANGED <<map_mirror_sets, opens, location>>
          ELSE \E outcome \in OpenOutcomes :
              LET r == ReadMirrors(mirror_files[path], outcome, location)
              IN /\ opens' = [opens EXCEPT ![path] = @ + 1]
                 /\ location' = r.loc
                 /\ map_mirror_sets' = map_mirror_sets @@ (path :> r.set)
                 /\ cur_template' = Some([cur_template[1] EXCEPT
                                            !.mirror_set = r.set,
                                            !.mirrors_path = Some(path)])
    /\ UNCHANGED <<templates, component, dpc, nLines, vocabulary, suite_lines,
                   mirror_files>>
    /\ UNCHANGED nonMirrorVars

MirrorNext == \E value \in {<<"mirrors">>, <<"other">>} : MirrorsFileField(value)

MirrorSpec == MirrorInit /\ [][MirrorNext]_vars

(***************************************************************************)
(* Properties of the mirror files.                                         *)
(***************************************************************************)
\* The label of the last "#LOC:" line of a file before its k-th line, None
\* when there is none.
LabelBefore(lines, k) ==
    LET marks == {j \in 1..(k - 1) :
                    MatchMirrorLine(lines[j]) /\ IsLocLine(lines[j])}
    IN IF marks = {} THEN None
       ELSE Some(LocLabel(lines[CHOOSE j \in marks : \A i \in marks : i <= j]))

\* C26: every Mirror of a mirror set has the label of the last "#LOC:" line
\* that stands before its own line in the file it was read from, and no
\* label when no such line stands before it in that file; a "#LOC:" line of
\* another file never gives it a label.
C26_LabelFromOwnFile ==
    \A path \in DOMAIN map_mirror_sets :
        \A h \in DOMAIN map_mirror_sets[path] :
            map_mirror_sets[path][h].location =
                LabelBefore(mirror_files[path], map_mirror_sets[path][h].at)

(***************************************************************************)
(* The status channel byte by byte: the installer writes a line in one     *)
(* piece or in two, and update_interface() reads in between.  Here pipe is *)
(* the sequence of the pieces written and not yet read.  The text stream   *)
(* of line 140 is non-blocking (line 141): readline() returns what there   *)
(* is up to the first newline, and all there is when there is no newline.  *)
(***************************************************************************)
RECURSIVE Flatten(_)
Flatten(pieces) ==
    IF pieces = <<>> THEN <<>> ELSE Head(pieces) \o Flatten(Tail(pieces))

\* Index of the first "\n" of toks, 0 if there is none.
FirstNewline(toks) ==
    LET at == {k \in 1..Len(toks) : toks[k] = "\n"}
    IN IF at = {} THEN 0 ELSE CHOOSE k \in at : \A j \in at : k <= j

\* Line 235: self.status_stream.readline() on the bytes in the channel:
\* <<the line returned, the bytes left>>.
ReadLine(stream) ==
    LET n == FirstNewline(stream)
    IN IF n = 0 THEN <<stream, <<>>>>
       ELSE <<SubSeq(stream, 1, n), SubSeq(stream, n + 1, Len(stream))>>

\* The installer writes a line, or the first k tokens of it.
SplitWrite ==
    /\ cpc = "do_install"
    /\ unwritten = <<>>
    /\ nWritten < MaxWrites
    /\ \E line \in ChildLines :
         \E k \in 1..Len(line) :
           /\ pipe' = Append(pipe, Prefix(line, k))
           /\ unwritten' = Suffix(line, k)
    /\ nWritten' = nWritten + 1
    /\ UNCHANGED <<decoderVars, child_pid, ppc, cpc, pid, res, exitStatus,
                   selRes, reapRes, nEintr, runRes>>
    /\ UNCHANGED nonSplitVars

\* The installer writes the rest of the line.
SplitWriteRest ==
    /\ cpc = "do_install"
    /\ unwritten # <<>>
    /\ pipe' = Append(pipe, unwritten)
    /\ unwritten' = <<>>
    /\ UNCHANGED <<decoderVars, child_pid, ppc, cpc, nWritten, pid, res,
                   exitStatus, selRes, reapRes, nEintr, runRes>>
    /\ UNCHANGED nonSplitVars

\* Lines 231-277: update_interface(), called by the loop of wait_child while
\* the child runs.
SplitUpdate ==
    /\ ppc = "select"
    /\ uiErr = "none"
    /\ LET r == ReadLine(Flatten(pipe))
       IN /\ Decode(r[1])
          /\ pipe' = IF r[2] = <<>> THEN <<>> ELSE <<r[2]>>
    /\ UNCHANGED <<nFed, child_pid, ppc, cpc, nWritten, pid, res, exitStatus,
                   selRes, reapRes, nEintr, runRes, unwritten>>
    /\ UNCHANGED nonSplitVars

SplitNext ==
    \/ (Fork /\ UNCHANGED unwritten)
    \/ (ChildSetInheritable /\ UNCHANGED unwritten)
    \/ SplitWrite
    \/ SplitWriteRest
    \/ SplitUpdate

SplitSpec == Init /\ [][SplitNext]_vars

(***************************************************************************)
(* Properties of the status channel.                                       *)
(***************************************************************************)
\* C21: a line that comes in two pieces is decoded as the one line it is:
\* every line update_interface decodes is a whole line the installer wrote,
\* never the first piece alone and never the rest alone.
C21_WholeLinesDecoded == readRes = "line" => lastLine \in ChildLines

====
